---- MODULE Spec2Model ----
(***************************************************************************)
(* Catalog consistency of the scheduled-music console: the API routes that *)
(* create, update and delete events of data/events.json while the events'  *)
(* audio and cover objects live in the R2 blob store.                      *)
(*                                                                         *)
(* Every route handler is split at its awaits on shared state (the read of *)
(* the catalog document, the batch deletion of blobs, the write of the     *)
(* document); the steps of concurrently running requests interleave.       *)
(***************************************************************************)
EXTENDS Integers, Sequences, FiniteSets, TLC

(***************************************************************************)
(* Bounds of the model.                                                    *)
(***************************************************************************)
\* number of requests in one run (they may all be in flight together)
NReq == 2
\* instants are 0..MaxTime
MaxTime == 2
\* number of events of the catalog document the run starts from
MaxInit == 2
\* the dates of the start times an operator types are 0..MaxDay
MaxDay == 1

Reqs == 1..NReq
Times == 0..MaxTime

(***************************************************************************)
(* Strings that the routes trim are sequences of characters; " " is the    *)
(* only whitespace character of the model.                                 *)
(***************************************************************************)
RECURSIVE TrimStart(_)
TrimStart(s) ==
  IF s # <<>> /\ Head(s) = " " THEN TrimStart(Tail(s)) ELSE s

RECURSIVE TrimEnd(_)
TrimEnd(s) ==
  IF s # <<>> /\ s[Len(s)] = " " THEN TrimEnd(SubSeq(s, 1, Len(s) - 1)) ELSE s

\* String.prototype.trim
Trim(s) == TrimEnd(TrimStart(s))

(***************************************************************************)
(* JSON values of a request body: k is the value's type ("absent" when the *)
(* key is not in the body), v the characters of a string.                  *)
(***************************************************************************)
JAbsent == [k |-> "absent", v |-> <<>>]
JNull == [k |-> "null", v |-> <<>>]
JNum == [k |-> "number", v |-> <<>>]
JStr(s) == [k |-> "string", v |-> s]

\* typeof x === "string"
IsString(j) == j.k = "string"

(***************************************************************************)
(* Tracks and events (src/unnamed/part_000).  An event without             *)
(* cover_image_url carries NoCover.  Instants stand for the ISO strings    *)
(* the records store.                                                      *)
(***************************************************************************)
NoCover == <<>>

TrackRecord(id, url, dur) ==
  [track_id |-> id, track_name |-> id, track_url |-> url,
   track_duration_seconds |-> dur]

EventRecord(id, name, artist, start, end, tracks, cover) ==
  [event_id |-> id, event_name |-> name, artist_name |-> artist,
   start_time_utc |-> start, end_time_utc |-> end, tracks |-> tracks,
   cover_image_url |-> cover]

T1 == TrackRecord("t1", <<"u">>, 1)
T2 == TrackRecord("t2", <<"v">>, 0)

\* the URLs of an event's objects: its track URLs, then its cover if any
RECURSIVE TrackUrls(_)
TrackUrls(tracks) ==
  IF tracks = <<>> THEN <<>>
  ELSE <<Head(tracks).track_url>> \o TrackUrls(Tail(tracks))

\* EventUrls without the cover: only the track URLs of the event
EventUrlsNoCover(event) == TrackUrls(event.tracks)

\* [...tracks.map((track) => track.track_url),
\*  ...(cover_image_url ? [cover_image_url] : [])]
EventUrls(event) ==
  TrackUrls(event.tracks)
    \o (IF event.cover_image_url # NoCover THEN <<event.cover_image_url>> ELSE <<>>)

RECURSIVE FlatMapUrls(_)
FlatMapUrls(events) ==
  IF events = <<>> THEN <<>>
  ELSE EventUrls(Head(events)) \o FlatMapUrls(Tail(events))

Range(s) == {s[i] : i \in DOMAIN s}
Ids(events) == {events[i].event_id : i \in DOMAIN events}

(***************************************************************************)
(* Dates.  A date string of a request body is a string of characters; the  *)
(* strings "0".."9" parse to the instants 0..9 and every other string is   *)
(* not a date.                                                             *)
(***************************************************************************)
Digits == <<"0", "1", "2", "3", "4", "5", "6", "7", "8", "9">>
NaN == 0 - 1

\* the date string of an instant
DateString(t) == <<Digits[t + 1]>>

\* new Date(s).getTime() of a string of a request body
ParseDate(s) ==
  IF Len(s) = 1 /\ \E i \in DOMAIN Digits : Digits[i] = s[1]
  THEN (CHOOSE i \in DOMAIN Digits : Digits[i] = s[1]) - 1
  ELSE NaN

\* new Date(iso).getTime() of a stored ISO string
GetTime(instant) == instant

(***************************************************************************)
(* lib/events: validation helpers and the catalog document.                *)
(***************************************************************************)
\* ensureIsoDate(value, label): the instant of a date string, or a
\* validation error naming the field
EnsureIsoDate(j, label) ==
  IF IsString(j) /\ ParseDate(j.v) # NaN
  THEN [error |-> "", value |-> ParseDate(j.v)]
  ELSE [error |-> label, value |-> 0]

\* a track of a request body is well-formed
ValidTrack(t) ==
  /\ t.track_id # ""
  /\ t.track_name # ""
  /\ t.track_url # <<>>
  /\ t.track_duration_seconds >= 0

\* only the recognised fields of a track are carried through
NormalizeTrack(t) ==
  [track_id |-> t.track_id, track_name |-> t.track_name,
   track_url |-> t.track_url,
   track_duration_seconds |-> t.track_duration_seconds]

\* ensureTracks(value): the normalised track list, or a validation error
EnsureTracks(j) ==
  IF j.k = "array" /\ j.v # <<>> /\ \A i \in DOMAIN j.v : ValidTrack(j.v[i])
  THEN [error |-> "", value |-> [i \in DOMAIN j.v |-> NormalizeTrack(j.v[i])]]
  ELSE [error |-> "tracks", value |-> <<>>]

\* isEventExpired(event, now)
IsEventExpired(event, now) == GetTime(event.end_time_utc) <= now

(***************************************************************************)
(* lib/timezone: the Time Normalizer.  A value of the datetime-local input *)
(* "YYYY-MM-DDTHH:mm" is its date, as a number of days, and the four       *)
(* digits of its time; an instant is a number of milliseconds, as getTime  *)
(* gives it.  Sri Lanka time is UTC+05:30 all year.                        *)
(***************************************************************************)
SriLankaOffsetMinutes == 330
MsPerMinute == 60000
MinutesPerDay == 1440

\* String(n).padStart(2, "0"), as digits
Pad2(n) == <<n \div 10, n % 10>>

\* Number("HH")
ParseDigits(d) == d[1] * 10 + d[2]

InputValue(date, hour, minute) ==
  [date |-> date, time |-> Pad2(hour) \o Pad2(minute)]

\* the empty input
NoValue == [date |-> 0, time |-> <<>>]

\* convertSriLankaInputToUtc(value, label): the instant of the wall-clock
\* time in Sri Lanka, or a validation error naming the field
ConvertSriLankaInputToUtc(value, label) ==
  IF Len(value.time) # 4 THEN [error |-> label, value |-> 0]
  ELSE LET hour == ParseDigits(SubSeq(value.time, 1, 2))
           minute == ParseDigits(SubSeq(value.time, 3, 4))
       IN  IF hour > 23 \/ minute > 59 THEN [error |-> label, value |-> 0]
           ELSE [error |-> "",
                 value |-> ((value.date * MinutesPerDay + hour * 60 + minute)
                              - SriLankaOffsetMinutes) * MsPerMinute]

\* toSriLankaInputValue(iso): the wall-clock time in Sri Lanka of an
\* instant, to the minute, as a value of the input
ToSriLankaInputValue(instant) ==
  LET minutes == (instant + SriLankaOffsetMinutes * MsPerMinute) \div MsPerMinute
      ofDay == minutes % MinutesPerDay
  IN  [date |-> minutes \div MinutesPerDay,
       time |-> Pad2(ofDay \div 60) \o Pad2(ofDay % 60)]

\* formatUtcWithOffset(date): the instant as the wall-clock time in Sri
\* Lanka, to the millisecond, with the offset as suffix ("+05:30")
FormatUtcWithOffset(instant) ==
  LET shifted == instant + SriLankaOffsetMinutes * MsPerMinute
      minutes == shifted \div MsPerMinute
      ofDay == minutes % MinutesPerDay
  IN  [date |-> minutes \div MinutesPerDay,
       time |-> Pad2(ofDay \div 60) \o Pad2(ofDay % 60),
       millis |-> shifted % MsPerMinute,
       offset |-> SriLankaOffsetMinutes]

\* new Date(s).getTime() of a string with an offset suffix, as ensureIsoDate
\* of the routes reads the end the clients send
ParseDateWithOffset(s) ==
  ((s.date * MinutesPerDay + ParseDigits(SubSeq(s.time, 1, 2)) * 60
      + ParseDigits(SubSeq(s.time, 3, 4))) - s.offset) * MsPerMinute + s.millis

VARIABLES
  catalog,    \* the events of data/events.json (<<>> when the file is not valid)
  fileState,  \* "valid", "missing" or "corrupt": the state of data/events.json
  blobs,      \* the URLs of the objects the blob store holds
  nextId,     \* the next identifier randomUUID hands out
  kind,       \* kind[r]: the route request r runs, "none" before it starts
  pc,         \* pc[r]: the await request r is suspended at
  target,     \* target[r]: the eventId of the request's path (0 if none)
  snap,       \* snap[r]: the events the request read
  ev,         \* ev[r]: newEvent, updatedEvent or deletedEvent of the request
  pending,    \* pending[r]: the document the request is about to persist
  doomed,     \* doomed[r]: the events whose objects the request deletes
  resp,       \* resp[r]: the response of the request
  log,        \* log[r]: the steps the request has taken, in order
  lastIn,     \* the request that was received last, with its body
  form        \* the edit form of the events page, with the start last saved

serverVars ==
  <<catalog, fileState, blobs, nextId, kind, pc, target, snap, ev, pending,
    doomed, resp, log, lastIn>>

vars == <<serverVars, form>>

\* readEventsFile(): the events of the document, [] if it is absent or unparsable
ReadEventsFile == IF fileState = "valid" THEN catalog ELSE <<>>

(***************************************************************************)
(* Responses.                                                              *)
(***************************************************************************)
NoEvent == EventRecord(0, <<>>, <<>>, 0, 0, <<>>, NoCover)
NoResponse ==
  [status |-> 0, error |-> "", event |-> NoEvent, events |-> <<>>,
   deleted |-> 0, remaining |-> 0]

ErrorResponse(status, message) ==
  [NoResponse EXCEPT !.status = status, !.error = message]

EventResponse(status, event) ==
  [NoResponse EXCEPT !.status = status, !.event = event]

ListResponse(events) == [NoResponse EXCEPT !.status = 200, !.events = events]

CountResponse(deleted, remaining) ==
  [NoResponse EXCEPT !.status = 200, !.deleted = deleted, !.remaining = remaining]

(***************************************************************************)
(* Request bodies the clients may send.  json is "ok" for a JSON object,   *)
(* "null" for the JSON text null and "bad" for text that is not JSON.      *)
(***************************************************************************)
Body(name, artist, start, end, tracks, cover) ==
  [json |-> "ok", event_id |-> JAbsent, event_name |-> name,
   artist_name |-> artist, start_time_utc |-> start, end_time_utc |-> end,
   tracks |-> tracks, cover_image_url |-> cover]

EmptyBody == Body(JAbsent, JAbsent, JAbsent, JAbsent, JAbsent, JAbsent)
BadJsonBody == [EmptyBody EXCEPT !.json = "bad"]
NullBody == [EmptyBody EXCEPT !.json = "null"]

JTracks(tracks) == [k |-> "array", v |-> tracks]
BadTrack == [T1 EXCEPT !.track_url = <<>>]

GoodNames == {JStr(<<" ", "b", " ">>)}
BadNames == {JStr(<<" ">>), JStr(<<>>), JNum, JAbsent}
GoodDates == {JStr(DateString(t)) : t \in Times}
BadDates == {JStr(<<"x">>), JNull, JAbsent}
GoodTracks == {JTracks(<<T1>>), JTracks(<<T2, T2>>)}
BadTracks == {JTracks(<<>>), JTracks(<<T1, BadTrack>>), JStr(<<"u">>), JAbsent}
Covers == {JAbsent, JStr(<<>>), JStr(<<" ", "c">>), JNum}

\* bodies of POST /api/create-event: a valid body with its times replaced by
\* any two dates, with its tracks and cover replaced by well-typed ones, or
\* with one field replaced by a bad value
ValidCreateBody == Body(JStr(<<" ", "b", " ">>), JStr(<<"b">>),
                        JStr(DateString(0)), JStr(DateString(1)),
                        JTracks(<<T1>>), JAbsent)

CreateBodies ==
  {[ValidCreateBody EXCEPT !.start_time_utc = s, !.end_time_utc = e] :
     s \in GoodDates, e \in GoodDates}
  \cup {[ValidCreateBody EXCEPT !.tracks = t, !.cover_image_url = c] :
          t \in GoodTracks, c \in Covers}
  \cup {[ValidCreateBody EXCEPT !.event_name = n] : n \in BadNames}
  \cup {[ValidCreateBody EXCEPT !.artist_name = n] : n \in BadNames}
  \cup {[ValidCreateBody EXCEPT !.start_time_utc = d] : d \in BadDates}
  \cup {[ValidCreateBody EXCEPT !.end_time_utc = d] : d \in BadDates}
  \cup {[ValidCreateBody EXCEPT !.tracks = t] : t \in BadTracks}
  \cup {BadJsonBody, NullBody}

\* bodies of PUT /api/events/[eventId]: one key, both times, several keys,
\* no key at all, or text that is not a JSON object
UpdateBodies ==
  {[EmptyBody EXCEPT !.event_name = n] :
     n \in {JStr(<<"d", " ">>)} \cup (BadNames \ {JAbsent})}
  \cup {[EmptyBody EXCEPT !.artist_name = n] : n \in {JStr(<<"c">>), JNull}}
  \cup {[EmptyBody EXCEPT !.start_time_utc = d] :
          d \in GoodDates \cup (BadDates \ {JAbsent})}
  \cup {[EmptyBody EXCEPT !.end_time_utc = d] :
          d \in GoodDates \cup (BadDates \ {JAbsent})}
  \cup {[EmptyBody EXCEPT !.start_time_utc = s, !.end_time_utc = e] :
          s \in GoodDates, e \in GoodDates}
  \cup {[EmptyBody EXCEPT !.tracks = t] :
          t \in {JTracks(<<T2>>)} \cup (BadTracks \ {JAbsent})}
  \cup {[EmptyBody EXCEPT !.cover_image_url = c] :
          c \in {JNull, JStr(<<>>), JStr(<<" ", "c">>), JStr(<<" ">>), JNum}}
  \cup {[EmptyBody EXCEPT !.event_id = JStr(<<"9">>)]}
  \cup {[EmptyBody EXCEPT !.event_id = JStr(<<"9">>), !.event_name = JStr(<<"a">>),
                          !.tracks = JTracks(<<T2>>),
                          !.cover_image_url = JStr(<<"c">>)]}
  \cup {EmptyBody, BadJsonBody, NullBody}

\* the bodies of the requests that race with each other: a valid create,
\* one with a cover and one whose end is its start; updates of the name
\* (with an event_id key in the body), of the start alone and of the end
\* alone
RaceCreateBodies ==
  {ValidCreateBody,
   [ValidCreateBody EXCEPT !.tracks = JTracks(<<T2, T2>>),
                           !.cover_image_url = JStr(<<" ", "c">>)],
   [ValidCreateBody EXCEPT !.start_time_utc = JStr(DateString(1))]}

RaceUpdateBodies ==
  {[EmptyBody EXCEPT !.event_id = JStr(<<"9">>),
                     !.event_name = JStr(<<"d", " ">>)],
   [EmptyBody EXCEPT !.start_time_utc = JStr(DateString(MaxTime))],
   [EmptyBody EXCEPT !.end_time_utc = JStr(DateString(MaxTime))]}

\* the keys of a body (Object.keys(payload))
BodyKeys ==
  {"event_id", "event_name", "artist_name", "start_time_utc", "end_time_utc",
   "tracks", "cover_image_url"}
Keys(body) == {f \in BodyKeys : body[f].k # "absent"}

\* the eventId of a request path: an event of the start, or one created later
TargetIds == 1..(MaxInit + 1)

(***************************************************************************)
(* The state the run starts from: a catalog document of at most MaxInit    *)
(* valid events (or no readable document at all), every uploaded object in *)
(* the blob store, and no request received yet.                            *)
(***************************************************************************)
CoverShape == EventRecord(0, <<"a">>, <<"a">>, 0, 1, <<T1>>, <<"c">>)
PlainShape == EventRecord(0, <<"a">>, <<"a">>, 1, 2, <<T1, T2>>, NoCover)
InitShapes == {CoverShape, PlainShape}

InitCatalogs ==
  UNION {{[i \in 1..n |-> [shape[i] EXCEPT !.event_id = i]] :
            shape \in [1..n -> InitShapes]} : n \in 0..MaxInit}

\* the catalogs that the racing requests start from: the two shapes in turn
RaceCatalogs ==
  {[i \in 1..n |-> [(IF i % 2 = 1 THEN CoverShape ELSE PlainShape)
                      EXCEPT !.event_id = i]] : n \in 0..MaxInit}

AllUrls == {<<"u">>, <<"v">>, <<"c">>}

NoInput == [req |-> 0, body |-> EmptyBody, now |-> 0]

\* the form before anything is typed: typed is what the operator entered,
\* start_time_utc the value of the input, saved the start of the stored event
\* tracks are the tracks attached in the form, startUtc and endUtc what the
\* page last sent, via the page that sent it
NoForm ==
  [stage |-> "idle", typed |-> NoValue, start_time_utc |-> NoValue,
   saved |-> 0, error |-> "", tracks |-> <<>>, startUtc |-> 0,
   endUtc |-> NoValue, via |-> ""]

StartsFrom(catalogs) ==
  /\ catalog \in catalogs
  /\ fileState \in (IF catalog = <<>> THEN {"valid", "missing", "corrupt"}
                    ELSE {"valid"})
  /\ blobs = AllUrls
  /\ nextId = Len(catalog) + 1
  /\ kind = [r \in Reqs |-> "none"]
  /\ pc = [r \in Reqs |-> "idle"]
  /\ target = [r \in Reqs |-> 0]
  /\ snap = [r \in Reqs |-> <<>>]
  /\ ev = [r \in Reqs |-> NoEvent]
  /\ pending = [r \in Reqs |-> <<>>]
  /\ doomed = [r \in Reqs |-> <<>>]
  /\ resp = [r \in Reqs |-> NoResponse]
  /\ log = [r \in Reqs |-> <<>>]
  /\ lastIn = NoInput
  /\ form = NoForm

Init == StartsFrom(RaceCatalogs)
InitOne == StartsFrom(InitCatalogs)

\* requests are received in the order of their numbers
CanStart(r) ==
  /\ pc[r] = "idle"
  /\ kind[r] = "none"
  /\ \A q \in Reqs : q < r => kind[q] # "none"

\* the request ends with a response
Finish(r, response, steps) ==
  /\ pc' = [pc EXCEPT ![r] = "done"]
  /\ resp' = [resp EXCEPT ![r] = response]
  /\ log' = [log EXCEPT ![r] = @ \o steps]
  /\ form' = form

\* the request goes on to its next await
Goto(r, label, steps) ==
  /\ pc' = [pc EXCEPT ![r] = label]
  /\ resp' = resp
  /\ log' = [log EXCEPT ![r] = @ \o steps]
  /\ form' = form

\* PersistEvents that is not atomic: the document that can be read after
\* the write lacks the last record of the list
PersistEventsTorn(events) ==
  /\ catalog' = (IF events = <<>> THEN <<>> ELSE SubSeq(events, 1, Len(events) - 1))
  /\ fileState' = "valid"

\* persistEvents(events) succeeds: the document is replaced as a whole
PersistEvents(events) ==
  /\ catalog' = events
  /\ fileState' = "valid"

(***************************************************************************)
(* POST /api/create-event                                                  *)
(***************************************************************************)
\* the cover of a new event: a non-empty string, trimmed; anything else is
\* no cover
CreateCover(j) ==
  IF IsString(j) /\ Trim(j.v) # <<>> THEN Trim(j.v) ELSE NoCover

\* EndNotAfterStart with < for <=: an end equal to the start passes
EndBeforeStart(start, end) == GetTime(end) < GetTime(start)

\* end must be after start
EndNotAfterStart(start, end) == GetTime(end) <= GetTime(start)

\* CreateValidation without the check of tracks' result: the event is built
\* from whatever ensureTracks returned
CreateValidationNoTracksCheck(body, id) ==
  LET startIso == EnsureIsoDate(body.start_time_utc, "start_time_utc")
      endIso == EnsureIsoDate(body.end_time_utc, "end_time_utc")
      normalizedTracks == EnsureTracks(body.tracks)
      fail(status, message) ==
        [status |-> status, error |-> message, event |-> NoEvent]
  IN  IF body.json = "bad" THEN fail(400, "Invalid JSON payload.")
      ELSE IF body.json = "null"
        THEN fail(500, "Unexpected error while creating the event.")
      ELSE IF ~IsString(body.event_name) \/ Trim(body.event_name.v) = <<>>
        THEN fail(400, "event_name is required.")
      ELSE IF ~IsString(body.artist_name) \/ Trim(body.artist_name.v) = <<>>
        THEN fail(400, "artist_name is required.")
      ELSE IF startIso.error # "" THEN fail(400, startIso.error)
      ELSE IF endIso.error # "" THEN fail(400, endIso.error)
      ELSE IF EndNotAfterStart(startIso.value, endIso.value)
        THEN fail(400, "end_time_utc must be after start_time_utc.")
      ELSE [status |-> 0, error |-> "",
            event |-> EventRecord(id, Trim(body.event_name.v),
                                  Trim(body.artist_name.v), startIso.value,
                                  endIso.value, normalizedTracks.value,
                                  CreateCover(body.cover_image_url))]

\* the checks of the body, in the order of the route: the first failure is
\* the error of the request; event is newEvent when there is none
CreateValidation(body, id) ==
  LET startIso == EnsureIsoDate(body.start_time_utc, "start_time_utc")
      endIso == EnsureIsoDate(body.end_time_utc, "end_time_utc")
      normalizedTracks == EnsureTracks(body.tracks)
      fail(status, message) ==
        [status |-> status, error |-> message, event |-> NoEvent]
  IN  IF body.json = "bad" THEN fail(400, "Invalid JSON payload.")
      ELSE IF body.json = "null"
        THEN fail(500, "Unexpected error while creating the event.")
      ELSE IF ~IsString(body.event_name) \/ Trim(body.event_name.v) = <<>>
        THEN fail(400, "event_name is required.")
      ELSE IF ~IsString(body.artist_name) \/ Trim(body.artist_name.v) = <<>>
        THEN fail(400, "artist_name is required.")
      ELSE IF startIso.error # "" THEN fail(400, startIso.error)
      ELSE IF endIso.error # "" THEN fail(400, endIso.error)
      ELSE IF EndNotAfterStart(startIso.value, endIso.value)
        THEN fail(400, "end_time_utc must be after start_time_utc.")
      ELSE IF normalizedTracks.error # "" THEN fail(400, normalizedTracks.error)
      ELSE [status |-> 0, error |-> "",
            event |-> EventRecord(id, Trim(body.event_name.v),
                                  Trim(body.artist_name.v), startIso.value,
                                  endIso.value, normalizedTracks.value,
                                  CreateCover(body.cover_image_url))]

\* PushEvent with unshift for push
UnshiftEvent(events, event) == <<event>> \o events

\* existingEvents.push(newEvent)
PushEvent(events, event) == Append(events, event)

\* the body is parsed and validated and newEvent is built
CreateValidate(r, bodies) ==
  /\ CanStart(r)
  /\ \E body \in bodies :
       LET v == CreateValidation(body, nextId)
       IN  /\ lastIn' = [req |-> r, body |-> body, now |-> 0]
           /\ kind' = [kind EXCEPT ![r] = "create"]
           /\ IF v.error # ""
              THEN /\ Finish(r, ErrorResponse(v.status, v.error),
                             <<IF v.status = 400 THEN "validate_fail" ELSE "throw">>)
                   /\ UNCHANGED <<ev, nextId>>
              ELSE /\ Goto(r, "read", <<"validate_ok">>)
                   /\ ev' = [ev EXCEPT ![r] = v.event]
                   /\ nextId' = nextId + 1
  /\ UNCHANGED <<catalog, fileState, blobs, target, snap, pending, doomed>>

\* await readEventsFile(), then the push
CreateRead(r) ==
  /\ kind[r] = "create"
  /\ pc[r] = "read"
  /\ snap' = [snap EXCEPT ![r] = ReadEventsFile]
  /\ pending' = [pending EXCEPT ![r] = PushEvent(ReadEventsFile, ev[r])]
  /\ Goto(r, "write", <<"read">>)
  /\ UNCHANGED <<catalog, fileState, blobs, nextId, kind, target, ev, doomed, lastIn>>

\* CreateWrite whose failure is found after the document was replaced
CreateWriteThenFail(r) ==
  /\ kind[r] = "create"
  /\ pc[r] = "write"
  /\ \/ /\ PersistEvents(pending[r])
        /\ Finish(r, EventResponse(201, ev[r]), <<"write_ok">>)
     \/ /\ PersistEvents(pending[r])
        /\ Finish(r, ErrorResponse(500, "Failed to save the event to disk."),
                  <<"write_fail">>)
  /\ UNCHANGED <<blobs, nextId, kind, target, snap, ev, pending, doomed, lastIn>>

\* CreateWrite that merges: it appends the new event to the document as it
\* is at the time of the write, not to the snapshot it read
CreateWriteMerging(r) ==
  /\ kind[r] = "create"
  /\ pc[r] = "write"
  /\ \/ /\ PersistEvents(PushEvent(ReadEventsFile, ev[r]))
        /\ Finish(r, EventResponse(201, ev[r]), <<"write_ok">>)
     \/ /\ UNCHANGED <<catalog, fileState>>
        /\ Finish(r, ErrorResponse(500, "Failed to save the event to disk."),
                  <<"write_fail">>)
  /\ UNCHANGED <<blobs, nextId, kind, target, snap, ev, pending, doomed, lastIn>>

\* await persistEvents(existingEvents): it succeeds, or it throws and the
\* inner catch answers
CreateWrite(r) ==
  /\ kind[r] = "create"
  /\ pc[r] = "write"
  /\ \/ /\ PersistEvents(pending[r])
        /\ Finish(r, EventResponse(201, ev[r]), <<"write_ok">>)
     \/ /\ UNCHANGED <<catalog, fileState>>
        /\ Finish(r, ErrorResponse(500, "Failed to save the event to disk."),
                  <<"write_fail">>)
  /\ UNCHANGED <<blobs, nextId, kind, target, snap, ev, pending, doomed, lastIn>>

(***************************************************************************)
(* PUT /api/events/[eventId]                                               *)
(***************************************************************************)
\* FindEventIndex that falls back to the last event when there is no match
FindEventIndexOrLast(events, eventId) ==
  IF \E i \in DOMAIN events : events[i].event_id = eventId
  THEN (CHOOSE i \in DOMAIN events :
          /\ events[i].event_id = eventId
          /\ \A j \in 1..(i - 1) : events[j].event_id # eventId) - 1
  ELSE Len(events) - 1

\* events.findIndex((event) => event.event_id === eventId): the 0-based
\* index of the first event with that id, -1 if there is none
FindEventIndex(events, eventId) ==
  IF \E i \in DOMAIN events : events[i].event_id = eventId
  THEN (CHOOSE i \in DOMAIN events :
          /\ events[i].event_id = eventId
          /\ \A j \in 1..(i - 1) : events[j].event_id # eventId) - 1
  ELSE 0 - 1

\* events[index]
At(events, index) == events[index + 1]

\* the state of the field-by-field update: the error thrown so far, and
\* updatedEvent
Thrown(u, message) == [u EXCEPT !.error = message]

\* UpdateEventName that also copies an event_id of the payload onto the
\* record (the id "9" of the bodies is the identifier 9)
UpdateEventNameAndId(u, body) ==
  LET v == IF body.event_id.k = "absent" THEN u
           ELSE [u EXCEPT !.event.event_id = 9]
  IN  IF v.error # "" \/ body.event_name.k = "absent" THEN v
      ELSE IF ~IsString(body.event_name) \/ Trim(body.event_name.v) = <<>>
        THEN Thrown(v, "event_name is required.")
      ELSE [v EXCEPT !.event.event_name = Trim(body.event_name.v)]

UpdateEventName(u, body) ==
  IF u.error # "" \/ body.event_name.k = "absent" THEN u
  ELSE IF ~IsString(body.event_name) \/ Trim(body.event_name.v) = <<>>
    THEN Thrown(u, "event_name is required.")
  ELSE [u EXCEPT !.event.event_name = Trim(body.event_name.v)]

UpdateArtistName(u, body) ==
  IF u.error # "" \/ body.artist_name.k = "absent" THEN u
  ELSE IF ~IsString(body.artist_name) \/ Trim(body.artist_name.v) = <<>>
    THEN Thrown(u, "artist_name is required.")
  ELSE [u EXCEPT !.event.artist_name = Trim(body.artist_name.v)]

UpdateStartTime(u, body) ==
  LET iso == EnsureIsoDate(body.start_time_utc, "start_time_utc")
  IN  IF u.error # "" \/ body.start_time_utc.k = "absent" THEN u
      ELSE IF iso.error # "" THEN Thrown(u, iso.error)
      ELSE [u EXCEPT !.event.start_time_utc = iso.value]

UpdateEndTime(u, body) ==
  LET iso == EnsureIsoDate(body.end_time_utc, "end_time_utc")
  IN  IF u.error # "" \/ body.end_time_utc.k = "absent" THEN u
      ELSE IF iso.error # "" THEN Thrown(u, iso.error)
      ELSE [u EXCEPT !.event.end_time_utc = iso.value]

\* UpdateTracks that takes any array of the payload as the track list, an
\* empty one included
UpdateTracksAnyArray(u, body) ==
  IF u.error # "" \/ body.tracks.k = "absent" THEN u
  ELSE IF body.tracks.k # "array" THEN Thrown(u, "tracks")
  ELSE [u EXCEPT !.event.tracks =
                   [i \in DOMAIN body.tracks.v |-> NormalizeTrack(body.tracks.v[i])]]

UpdateTracks(u, body) ==
  LET tracks == EnsureTracks(body.tracks)
  IN  IF u.error # "" \/ body.tracks.k = "absent" THEN u
      ELSE IF tracks.error # "" THEN Thrown(u, tracks.error)
      ELSE [u EXCEPT !.event.tracks = tracks.value]

\* UpdateCover written like the cover of create: a body without the key
\* leaves the event without a cover
UpdateCoverLikeCreate(u, body) ==
  LET coverUrl == body.cover_image_url
  IN  IF u.error # "" THEN u
      ELSE IF coverUrl.k \in {"absent", "null"} \/ coverUrl = JStr(<<>>)
        THEN [u EXCEPT !.event.cover_image_url = NoCover]
      ELSE IF IsString(coverUrl) /\ Trim(coverUrl.v) # <<>>
        THEN [u EXCEPT !.event.cover_image_url = Trim(coverUrl.v)]
      ELSE Thrown(u, "cover_image_url must be a string if provided.")

UpdateCover(u, body) ==
  LET coverUrl == body.cover_image_url
  IN  IF u.error # "" \/ coverUrl.k = "absent" THEN u
      ELSE IF coverUrl.k = "null" \/ coverUrl = JStr(<<>>)
        THEN [u EXCEPT !.event.cover_image_url = NoCover]
      ELSE IF IsString(coverUrl) /\ Trim(coverUrl.v) # <<>>
        THEN [u EXCEPT !.event.cover_image_url = Trim(coverUrl.v)]
      ELSE Thrown(u, "cover_image_url must be a string if provided.")

\* UpdateTimeOrder that never throws
UpdateTimeOrderSkipped(u) == u

UpdateTimeOrder(u) ==
  IF u.error # "" THEN u
  ELSE IF EndNotAfterStart(u.event.start_time_utc, u.event.end_time_utc)
    THEN Thrown(u, "end_time_utc must be after start_time_utc.")
  ELSE u

\* UpdateValidation that counts only the keys it can apply: a body whose
\* only key is event_id is answered as a body with no key
UpdateValidationKnownKeys(body, currentEvent) ==
  LET u0 == [status |-> 400, error |-> "", event |-> currentEvent]
  IN  IF body.json = "bad" THEN Thrown(u0, "Invalid JSON payload.")
      ELSE IF body.json = "null"
        THEN [u0 EXCEPT !.status = 500,
                        !.error = "Unexpected error while updating the event."]
      ELSE IF Keys(body) \ {"event_id"} = {}
        THEN Thrown(u0, "No fields provided to update.")
      ELSE UpdateTimeOrder(
             UpdateCover(
               UpdateTracks(
                 UpdateEndTime(
                   UpdateStartTime(
                     UpdateArtistName(
                       UpdateEventName(u0, body), body), body), body), body),
               body))

\* the body applied to a copy of currentEvent, in the order of the route
UpdateValidation(body, currentEvent) ==
  LET u0 == [status |-> 400, error |-> "", event |-> currentEvent]
  IN  IF body.json = "bad" THEN Thrown(u0, "Invalid JSON payload.")
      ELSE IF body.json = "null"
        THEN [u0 EXCEPT !.status = 500,
                        !.error = "Unexpected error while updating the event."]
      ELSE IF Keys(body) = {} THEN Thrown(u0, "No fields provided to update.")
      ELSE UpdateTimeOrder(
             UpdateCover(
               UpdateTracks(
                 UpdateEndTime(
                   UpdateStartTime(
                     UpdateArtistName(
                       UpdateEventName(u0, body), body), body), body), body),
               body))

\* SetAt that moves the record to the end of the list: the original is
\* taken out of its place and the modified record appended
SetAtEnd(events, index, event) ==
  SubSeq(events, 1, index) \o SubSeq(events, index + 2, Len(events)) \o <<event>>

\* events[index] = updatedEvent
SetAt(events, index, event) == [events EXCEPT ![index + 1] = event]

\* UpdateRead that parses and validates the body before it looks for the
\* event: a bad body is answered 400 whether the event exists or not
UpdateReadValidatingFirst(r, bodies) ==
  /\ CanStart(r)
  /\ \E eventId \in TargetIds, body \in bodies :
       LET events == ReadEventsFile
           index == FindEventIndex(events, eventId)
           u == UpdateValidation(body, IF index = 0 - 1 THEN NoEvent
                                       ELSE At(events, index))
       IN  /\ lastIn' = [req |-> r, body |-> body, now |-> 0]
           /\ kind' = [kind EXCEPT ![r] = "update"]
           /\ target' = [target EXCEPT ![r] = eventId]
           /\ snap' = [snap EXCEPT ![r] = events]
           /\ IF u.error # ""
              THEN /\ Finish(r, ErrorResponse(u.status, u.error),
                             <<"read",
                               IF u.status = 400 THEN "validate_fail" ELSE "throw">>)
                   /\ UNCHANGED <<ev, pending>>
              ELSE IF index = 0 - 1
              THEN /\ Finish(r, ErrorResponse(404, "Event not found."),
                             <<"read", "not_found">>)
                   /\ UNCHANGED <<ev, pending>>
              ELSE /\ Goto(r, "write", <<"read", "found", "validate_ok">>)
                   /\ ev' = [ev EXCEPT ![r] = u.event]
                   /\ pending' = [pending EXCEPT ![r] = SetAt(events, index, u.event)]
  /\ UNCHANGED <<catalog, fileState, blobs, nextId, doomed>>

\* await readEventsFile(), the search for the event, and the body applied
\* to it
UpdateRead(r, bodies) ==
  /\ CanStart(r)
  /\ \E eventId \in TargetIds, body \in bodies :
       LET events == ReadEventsFile
           index == FindEventIndex(events, eventId)
           u == UpdateValidation(body, At(events, index))
       IN  /\ lastIn' = [req |-> r, body |-> body, now |-> 0]
           /\ kind' = [kind EXCEPT ![r] = "update"]
           /\ target' = [target EXCEPT ![r] = eventId]
           /\ snap' = [snap EXCEPT ![r] = events]
           /\ IF index = 0 - 1
              THEN /\ Finish(r, ErrorResponse(404, "Event not found."),
                             <<"read", "not_found">>)
                   /\ UNCHANGED <<ev, pending>>
              ELSE IF u.error # ""
              THEN /\ Finish(r, ErrorResponse(u.status, u.error),
                             <<"read", "found",
                               IF u.status = 400 THEN "validate_fail" ELSE "throw">>)
                   /\ UNCHANGED <<ev, pending>>
              ELSE /\ Goto(r, "write", <<"read", "found", "validate_ok">>)
                   /\ ev' = [ev EXCEPT ![r] = u.event]
                   /\ pending' = [pending EXCEPT ![r] = SetAt(events, index, u.event)]
  /\ UNCHANGED <<catalog, fileState, blobs, nextId, doomed>>

\* UpdateWrite that collects garbage: with the document it deletes the
\* objects that the record referenced before and does not reference now
UpdateWriteCollecting(r) ==
  /\ kind[r] = "update"
  /\ pc[r] = "write"
  /\ \/ /\ PersistEvents(pending[r])
        /\ blobs' = blobs \ (Range(EventUrls(At(snap[r],
                                                FindEventIndex(snap[r], target[r]))))
                               \ Range(EventUrls(ev[r])))
        /\ Finish(r, EventResponse(200, ev[r]), <<"write_ok">>)
     \/ /\ UNCHANGED <<catalog, fileState, blobs>>
        /\ Finish(r, ErrorResponse(500, "Unexpected error while updating the event."),
                  <<"write_fail">>)
  /\ UNCHANGED <<nextId, kind, target, snap, ev, pending, doomed, lastIn>>

\* await persistEvents(events): it succeeds, or it throws and the outer
\* catch answers
UpdateWrite(r) ==
  /\ kind[r] = "update"
  /\ pc[r] = "write"
  /\ \/ /\ PersistEvents(pending[r])
        /\ Finish(r, EventResponse(200, ev[r]), <<"write_ok">>)
     \/ /\ UNCHANGED <<catalog, fileState>>
        /\ Finish(r, ErrorResponse(500, "Unexpected error while updating the event."),
                  <<"write_fail">>)
  /\ UNCHANGED <<blobs, nextId, kind, target, snap, ev, pending, doomed, lastIn>>

(***************************************************************************)
(* lib/r2Client: deleteObjectsForUrls(urls) attempts every URL.  The URLs  *)
(* in failed are the ones whose deletion fails; every other object is gone *)
(* afterwards (deleting an object that is already gone succeeds).  The     *)
(* call throws when failed is not empty.                                   *)
(***************************************************************************)
DeleteObjectsForUrls(urls, failed) ==
  blobs' = blobs \ (Range(urls) \ failed)

\* DeleteAssets without the return of its catch block: the request goes on
\* to persist after a failed deletion
DeleteAssetsNoReturn(r, message) ==
  /\ pc[r] = "assets"
  /\ \E failed \in SUBSET Range(FlatMapUrls(doomed[r])) :
       /\ DeleteObjectsForUrls(FlatMapUrls(doomed[r]), failed)
       /\ IF failed = {}
          THEN Goto(r, "write", <<"assets_ok">>)
          ELSE Goto(r, "write", <<"assets_fail">>)
  /\ UNCHANGED <<catalog, fileState, nextId, kind, target, snap, ev, pending,
                 doomed, lastIn>>

\* DeleteAssets without a catch of its own: a deletion that throws reaches
\* the outer catch of the route, which answers 500
DeleteAssetsOuterCatch(r, message) ==
  /\ pc[r] = "assets"
  /\ \E failed \in SUBSET Range(FlatMapUrls(doomed[r])) :
       /\ DeleteObjectsForUrls(FlatMapUrls(doomed[r]), failed)
       /\ IF failed = {}
          THEN Goto(r, "write", <<"assets_ok">>)
          ELSE Finish(r, ErrorResponse(500, message), <<"assets_fail">>)
  /\ UNCHANGED <<catalog, fileState, nextId, kind, target, snap, ev, pending,
                 doomed, lastIn>>

\* the awaited deletion of the objects of doomed[r]: it succeeds and the
\* request goes on to persist, or it throws and the request answers 502
DeleteAssets(r, message) ==
  /\ pc[r] = "assets"
  /\ \E failed \in SUBSET Range(FlatMapUrls(doomed[r])) :
       /\ DeleteObjectsForUrls(FlatMapUrls(doomed[r]), failed)
       /\ IF failed = {}
          THEN Goto(r, "write", <<"assets_ok">>)
          ELSE Finish(r, ErrorResponse(502, message), <<"assets_fail">>)
  /\ UNCHANGED <<catalog, fileState, nextId, kind, target, snap, ev, pending,
                 doomed, lastIn>>

\* DeleteWrite with a persistEvents that is not atomic: a write that fails
\* leaves a document that cannot be parsed
DeleteWriteTornOnFailure(r, response, message) ==
  /\ pc[r] = "write"
  /\ \/ /\ PersistEvents(pending[r])
        /\ Finish(r, response, <<"write_ok">>)
     \/ /\ catalog' = catalog
        /\ fileState' = "corrupt"
        /\ Finish(r, ErrorResponse(500, message), <<"write_fail">>)
  /\ UNCHANGED <<blobs, nextId, kind, target, snap, ev, pending, doomed, lastIn>>

\* the awaited persistEvents of a delete route: it succeeds, or it throws
\* and the outer catch answers 500
DeleteWrite(r, response, message) ==
  /\ pc[r] = "write"
  /\ \/ /\ PersistEvents(pending[r])
        /\ Finish(r, response, <<"write_ok">>)
     \/ /\ UNCHANGED <<catalog, fileState>>
        /\ Finish(r, ErrorResponse(500, message), <<"write_fail">>)
  /\ UNCHANGED <<blobs, nextId, kind, target, snap, ev, pending, doomed, lastIn>>

(***************************************************************************)
(* DELETE /api/events/[eventId]                                            *)
(***************************************************************************)

\* WithoutIndex with the two slices in the other order: the events after
\* the found one come before the events ahead of it
WithoutIndexTailFirst(events, index) ==
  SubSeq(events, index + 2, Len(events)) \o SubSeq(events, 1, index)

\* WithoutIndex with the slices one off: the event before the found one is
\* the one left out
WithoutIndexOneOff(events, index) ==
  SubSeq(events, 1, index - 1) \o SubSeq(events, index + 1, Len(events))

\* [...events.slice(0, index), ...events.slice(index + 1, events.length)]
WithoutIndex(events, index) ==
  SubSeq(events, 1, index) \o SubSeq(events, index + 2, Len(events))

\* DeleteOneRead that hands the objects of every event of the snapshot to
\* the deletion, not only those of events[index]
DeleteOneReadAllAssets(r) ==
  /\ CanStart(r)
  /\ \E eventId \in TargetIds :
       LET events == ReadEventsFile
           index == FindEventIndex(events, eventId)
       IN  /\ lastIn' = [req |-> r, body |-> EmptyBody, now |-> 0]
           /\ kind' = [kind EXCEPT ![r] = "delete"]
           /\ target' = [target EXCEPT ![r] = eventId]
           /\ snap' = [snap EXCEPT ![r] = events]
           /\ IF index = 0 - 1
              THEN /\ Finish(r, ErrorResponse(404, "Event not found."),
                             <<"read", "not_found">>)
                   /\ UNCHANGED <<ev, pending, doomed>>
              ELSE /\ Goto(r, "assets", <<"read", "found">>)
                   /\ ev' = [ev EXCEPT ![r] = At(events, index)]
                   /\ doomed' = [doomed EXCEPT ![r] = events]
                   /\ pending' = [pending EXCEPT ![r] = WithoutIndex(events, index)]
  /\ UNCHANGED <<catalog, fileState, blobs, nextId>>

\* DeleteOneRead without the return for index === -1: an unknown id goes
\* on to persist the snapshot as it is
DeleteOneReadNoNotFound(r) ==
  /\ CanStart(r)
  /\ \E eventId \in TargetIds :
       LET events == ReadEventsFile
           index == FindEventIndex(events, eventId)
       IN  /\ lastIn' = [req |-> r, body |-> EmptyBody, now |-> 0]
           /\ kind' = [kind EXCEPT ![r] = "delete"]
           /\ target' = [target EXCEPT ![r] = eventId]
           /\ snap' = [snap EXCEPT ![r] = events]
           /\ IF index = 0 - 1
              THEN /\ Goto(r, "write", <<"read", "found">>)
                   /\ pending' = [pending EXCEPT ![r] = events]
                   /\ UNCHANGED <<ev, doomed>>
              ELSE /\ Goto(r, "assets", <<"read", "found">>)
                   /\ ev' = [ev EXCEPT ![r] = At(events, index)]
                   /\ doomed' = [doomed EXCEPT ![r] = <<At(events, index)>>]
                   /\ pending' = [pending EXCEPT ![r] = WithoutIndex(events, index)]
  /\ UNCHANGED <<catalog, fileState, blobs, nextId>>

\* await readEventsFile() and the search for the event
DeleteOneRead(r) ==
  /\ CanStart(r)
  /\ \E eventId \in TargetIds :
       LET events == ReadEventsFile
           index == FindEventIndex(events, eventId)
       IN  /\ lastIn' = [req |-> r, body |-> EmptyBody, now |-> 0]
           /\ kind' = [kind EXCEPT ![r] = "delete"]
           /\ target' = [target EXCEPT ![r] = eventId]
           /\ snap' = [snap EXCEPT ![r] = events]
           /\ IF index = 0 - 1
              THEN /\ Finish(r, ErrorResponse(404, "Event not found."),
                             <<"read", "not_found">>)
                   /\ UNCHANGED <<ev, pending, doomed>>
              ELSE /\ Goto(r, "assets", <<"read", "found">>)
                   /\ ev' = [ev EXCEPT ![r] = At(events, index)]
                   /\ doomed' = [doomed EXCEPT ![r] = <<At(events, index)>>]
                   /\ pending' = [pending EXCEPT ![r] = WithoutIndex(events, index)]
  /\ UNCHANGED <<catalog, fileState, blobs, nextId>>

DeleteOneAssets(r) ==
  /\ kind[r] = "delete"
  /\ DeleteAssets(r, "Unable to delete event assets from storage.")

\* DeleteOneWrite that persists the events it read, the deleted one among
\* them, and answers as if it had left it out
DeleteOneWriteSnapshot(r) ==
  /\ kind[r] = "delete"
  /\ pc[r] = "write"
  /\ \/ /\ PersistEvents(snap[r])
        /\ Finish(r, CountResponse(ev[r].event_id, Len(pending[r])), <<"write_ok">>)
     \/ /\ UNCHANGED <<catalog, fileState>>
        /\ Finish(r, ErrorResponse(500, "Unexpected error while deleting the event."),
                  <<"write_fail">>)
  /\ UNCHANGED <<blobs, nextId, kind, target, snap, ev, pending, doomed, lastIn>>

DeleteOneWrite(r) ==
  /\ kind[r] = "delete"
  /\ DeleteWrite(r, CountResponse(ev[r].event_id, Len(pending[r])),
                 "Unexpected error while deleting the event.")

(***************************************************************************)
(* GET /api/events                                                         *)
(***************************************************************************)
\* InsertByStart that puts an event before the events of the same start, as
\* a sort that is not stable may do
RECURSIVE InsertByStartBeforeEqual(_, _)
InsertByStartBeforeEqual(event, sorted) ==
  IF sorted = <<>> THEN <<event>>
  ELSE IF GetTime(event.start_time_utc) - GetTime(Head(sorted).start_time_utc) <= 0
       THEN <<event>> \o sorted
       ELSE <<Head(sorted)>> \o InsertByStartBeforeEqual(event, Tail(sorted))

\* the place of an event in a list sorted by start: after every event that
\* starts no later (Array.prototype.sort is stable)
RECURSIVE InsertByStart(_, _)
InsertByStart(event, sorted) ==
  IF sorted = <<>> THEN <<event>>
  ELSE IF GetTime(event.start_time_utc) - GetTime(Head(sorted).start_time_utc) < 0
       THEN <<event>> \o sorted
       ELSE <<Head(sorted)>> \o InsertByStart(event, Tail(sorted))

\* [...events].sort((a, b) => start of a - start of b)
RECURSIVE SortByStart(_)
SortByStart(events) ==
  IF events = <<>> THEN <<>>
  ELSE InsertByStart(events[Len(events)],
                     SortByStart(SubSeq(events, 1, Len(events) - 1)))

\* ListEvents that does not take an absent or unparsable document for an
\* empty one: the failed read reaches the catch, which answers 500
ListEventsStrict(r) ==
  /\ CanStart(r)
  /\ LET events == ReadEventsFile
     IN  /\ lastIn' = [req |-> r, body |-> EmptyBody, now |-> 0]
         /\ kind' = [kind EXCEPT ![r] = "list"]
         /\ snap' = [snap EXCEPT ![r] = events]
         /\ IF fileState = "valid"
            THEN Finish(r, ListResponse(SortByStart(events)), <<"read">>)
            ELSE Finish(r, ErrorResponse(500, "Unable to read events from disk."),
                        <<"throw">>)
  /\ UNCHANGED <<catalog, fileState, blobs, nextId, target, ev, pending, doomed>>

\* await readEventsFile() and the answer with the sorted copy
ListEvents(r) ==
  /\ CanStart(r)
  /\ LET events == ReadEventsFile
     IN  /\ lastIn' = [req |-> r, body |-> EmptyBody, now |-> 0]
         /\ kind' = [kind EXCEPT ![r] = "list"]
         /\ snap' = [snap EXCEPT ![r] = events]
         /\ Finish(r, ListResponse(SortByStart(events)), <<"read">>)
  /\ UNCHANGED <<catalog, fileState, blobs, nextId, target, ev, pending, doomed>>

(***************************************************************************)
(* DELETE /api/events (delete-all)                                         *)
(***************************************************************************)
\* DeleteAllRead that clears all events but the last: it neither deletes
\* the objects of the last event nor leaves it out of what it persists
DeleteAllReadKeepsLast(r) ==
  /\ CanStart(r)
  /\ LET existing == ReadEventsFile
         last == IF existing = <<>> THEN <<>>
                 ELSE <<existing[Len(existing)]>>
     IN  /\ lastIn' = [req |-> r, body |-> EmptyBody, now |-> 0]
         /\ kind' = [kind EXCEPT ![r] = "clear"]
         /\ snap' = [snap EXCEPT ![r] = existing]
         /\ doomed' = [doomed EXCEPT ![r] = IF existing = <<>> THEN <<>>
                                        ELSE SubSeq(existing, 1, Len(existing) - 1)]
         /\ pending' = [pending EXCEPT ![r] = last]
         /\ IF Len(existing) # 0
            THEN Goto(r, "assets", <<"read">>)
            ELSE Goto(r, "write", <<"read">>)
  /\ UNCHANGED <<catalog, fileState, blobs, nextId, target, ev>>

\* DeleteAllRead that never calls deleteObjectsForUrls
DeleteAllReadNoAssets(r) ==
  /\ CanStart(r)
  /\ LET existing == ReadEventsFile
     IN  /\ lastIn' = [req |-> r, body |-> EmptyBody, now |-> 0]
         /\ kind' = [kind EXCEPT ![r] = "clear"]
         /\ snap' = [snap EXCEPT ![r] = existing]
         /\ doomed' = [doomed EXCEPT ![r] = existing]
         /\ pending' = [pending EXCEPT ![r] = <<>>]
         /\ Goto(r, "write", <<"read">>)
  /\ UNCHANGED <<catalog, fileState, blobs, nextId, target, ev>>

\* DeleteAllRead that answers at once when there are no events, as the
\* sweep of the expired events does: nothing is written
DeleteAllReadEarlyReturn(r) ==
  /\ CanStart(r)
  /\ LET existing == ReadEventsFile
     IN  /\ lastIn' = [req |-> r, body |-> EmptyBody, now |-> 0]
         /\ kind' = [kind EXCEPT ![r] = "clear"]
         /\ snap' = [snap EXCEPT ![r] = existing]
         /\ doomed' = [doomed EXCEPT ![r] = existing]
         /\ pending' = [pending EXCEPT ![r] = <<>>]
         /\ IF Len(existing) # 0
            THEN Goto(r, "assets", <<"read">>)
            ELSE Finish(r, CountResponse(0, 0), <<"read", "none_expired">>)
  /\ UNCHANGED <<catalog, fileState, blobs, nextId, target, ev>>

\* await readEventsFile(); the objects are deleted when there are events
DeleteAllRead(r) ==
  /\ CanStart(r)
  /\ LET existing == ReadEventsFile
     IN  /\ lastIn' = [req |-> r, body |-> EmptyBody, now |-> 0]
         /\ kind' = [kind EXCEPT ![r] = "clear"]
         /\ snap' = [snap EXCEPT ![r] = existing]
         /\ doomed' = [doomed EXCEPT ![r] = existing]
         /\ pending' = [pending EXCEPT ![r] = <<>>]
         /\ IF Len(existing) # 0
            THEN Goto(r, "assets", <<"read">>)
            ELSE Goto(r, "write", <<"read">>)
  /\ UNCHANGED <<catalog, fileState, blobs, nextId, target, ev>>

DeleteAllAssets(r) ==
  /\ kind[r] = "clear"
  /\ DeleteAssets(r, "Unable to delete event assets from storage.")

DeleteAllWrite(r) ==
  /\ kind[r] = "clear"
  /\ DeleteWrite(r, CountResponse(Len(snap[r]), 0), "Unable to delete events.")

(***************************************************************************)
(* DELETE /api/events/expired                                              *)
(***************************************************************************)
\* events.filter((event) => isEventExpired(event, now))
ExpiredEvents(events, now) ==
  SelectSeq(events, LAMBDA event : IsEventExpired(event, now))

\* ActiveEvents that keeps an event that ends exactly at now
ActiveEventsAtNow(events, now) ==
  SelectSeq(events, LAMBDA event : GetTime(event.end_time_utc) >= now)

\* events.filter((event) => !isEventExpired(event, now))
ActiveEvents(events, now) ==
  SelectSeq(events, LAMBDA event : ~IsEventExpired(event, now))

\* DeleteExpiredRead without the return for deleted === 0: a sweep that
\* finds nothing expired goes on to delete no object and to persist
DeleteExpiredReadNoEarlyReturn(r) ==
  /\ CanStart(r)
  /\ \E now \in Times :
       LET events == ReadEventsFile
           expiredEvents == ExpiredEvents(events, now)
           activeEvents == ActiveEvents(events, now)
       IN  /\ lastIn' = [req |-> r, body |-> EmptyBody, now |-> now]
           /\ kind' = [kind EXCEPT ![r] = "expired"]
           /\ snap' = [snap EXCEPT ![r] = events]
           /\ Goto(r, "assets", <<"read">>)
           /\ doomed' = [doomed EXCEPT ![r] = expiredEvents]
           /\ pending' = [pending EXCEPT ![r] = activeEvents]
  /\ UNCHANGED <<catalog, fileState, blobs, nextId, target, ev>>

\* await readEventsFile() and the partition of the events at now
DeleteExpiredRead(r) ==
  /\ CanStart(r)
  /\ \E now \in Times :
       LET events == ReadEventsFile
           expiredEvents == ExpiredEvents(events, now)
           activeEvents == ActiveEvents(events, now)
           deleted == Len(events) - Len(activeEvents)
       IN  /\ lastIn' = [req |-> r, body |-> EmptyBody, now |-> now]
           /\ kind' = [kind EXCEPT ![r] = "expired"]
           /\ snap' = [snap EXCEPT ![r] = events]
           /\ IF deleted = 0
              THEN /\ Finish(r, CountResponse(0, Len(events)), <<"read", "none_expired">>)
                   /\ UNCHANGED <<pending, doomed>>
              ELSE /\ Goto(r, "assets", <<"read">>)
                   /\ doomed' = [doomed EXCEPT ![r] = expiredEvents]
                   /\ pending' = [pending EXCEPT ![r] = activeEvents]
  /\ UNCHANGED <<catalog, fileState, blobs, nextId, target, ev>>

DeleteExpiredAssets(r) ==
  /\ kind[r] = "expired"
  /\ DeleteAssets(r, "Unable to delete expired event assets from storage.")

DeleteExpiredWrite(r) ==
  /\ kind[r] = "expired"
  /\ DeleteWrite(r, CountResponse(Len(snap[r]) - Len(pending[r]), Len(pending[r])),
                 "Unable to delete expired events.")

(***************************************************************************)
(* Spec: NReq requests race with each other, step by step.                 *)
(***************************************************************************)
Next ==
  \E r \in Reqs :
    \/ CreateValidate(r, RaceCreateBodies)
    \/ CreateRead(r)
    \/ CreateWrite(r)
    \/ UpdateRead(r, RaceUpdateBodies)
    \/ UpdateWrite(r)
    \/ DeleteOneRead(r)
    \/ DeleteOneAssets(r)
    \/ DeleteOneWrite(r)
    \/ DeleteAllRead(r)
    \/ DeleteAllAssets(r)
    \/ DeleteAllWrite(r)
    \/ DeleteExpiredRead(r)
    \/ DeleteExpiredAssets(r)
    \/ DeleteExpiredWrite(r)
    \/ ListEvents(r)

Spec == Init /\ [][Next]_vars

(***************************************************************************)
(* SpecOne: one request, with any body the clients may send, on any        *)
(* catalog of the start.                                                   *)
(***************************************************************************)
NextOne ==
  \/ CreateValidate(1, CreateBodies)
  \/ CreateRead(1)
  \/ CreateWrite(1)
  \/ UpdateRead(1, UpdateBodies)
  \/ UpdateWrite(1)
  \/ DeleteOneRead(1)
  \/ DeleteOneAssets(1)
  \/ DeleteOneWrite(1)
  \/ DeleteAllRead(1)
  \/ DeleteAllAssets(1)
  \/ DeleteAllWrite(1)
  \/ DeleteExpiredRead(1)
  \/ DeleteExpiredAssets(1)
  \/ DeleteExpiredWrite(1)
  \/ ListEvents(1)

SpecOne == InitOne /\ [][NextOne]_vars

(***************************************************************************)
(* SpecSeq: the requests of Spec, one at a time: a request takes a step    *)
(* only while no other request is between its first step and its answer.   *)
(***************************************************************************)
Alone(r) == \A q \in Reqs \ {r} : pc[q] \in {"idle", "done"}

NextSeq ==
  \E r \in Reqs :
    /\ Alone(r)
    /\ \/ CreateValidate(r, RaceCreateBodies)
       \/ CreateRead(r)
       \/ CreateWrite(r)
       \/ UpdateRead(r, RaceUpdateBodies)
       \/ UpdateWrite(r)
       \/ DeleteOneRead(r)
       \/ DeleteOneAssets(r)
       \/ DeleteOneWrite(r)
       \/ DeleteAllRead(r)
       \/ DeleteAllAssets(r)
       \/ DeleteAllWrite(r)
       \/ DeleteExpiredRead(r)
       \/ DeleteExpiredAssets(r)
       \/ DeleteExpiredWrite(r)
       \/ ListEvents(r)

SpecSeq == Init /\ [][NextSeq]_vars

(***************************************************************************)
(* The forms of the upload page (app/upload-event/page.jsx) and of the     *)
(* events page (app/events/page.tsx).  The operator types a start time in  *)
(* Sri Lanka time and attaches tracks, the page sends the instant of the   *)
(* start and the end it derives from the tracks, and when the event is     *)
(* edited again the page shows the start as a value of the input.          *)
(***************************************************************************)
Hours == {0, 5, 6, 12, 23}
Minutes == {0, 29, 30, 59}

\* what the operator may leave in the input: a time of a day, the empty
\* input, or text that is no time
StartInputs ==
  {InputValue(date, hour, minute) :
     date \in 0..MaxDay, hour \in Hours, minute \in Minutes}
  \cup {NoValue, InputValue(0, 24, 0), InputValue(0, 0, 60)}

\* handleFormChange: the input takes the value typed
HandleFormChange ==
  /\ form.stage = "idle"
  /\ \E value \in StartInputs :
       form' = [form EXCEPT !.stage = "typed", !.typed = value,
                            !.start_time_utc = value]
  /\ UNCHANGED serverVars

\* a track of the form: micros is its track_duration_seconds, a number, in
\* millionths of a second
FormTrack(id, micros) == [track_id |-> id, micros |-> micros]

\* the track lists of the form: no track, tracks of no length, of half a
\* millisecond, of a second
FormTrackLists ==
  {<<>>,
   <<FormTrack("t0", 0)>>,
   <<FormTrack("t0", 0), FormTrack("t0", 0)>>,
   <<FormTrack("t5", 500)>>,
   <<FormTrack("t5", 500), FormTrack("t5", 500)>>,
   <<FormTrack("t1", 1000000)>>,
   <<FormTrack("t0", 0), FormTrack("t1", 1000000)>>}

\* tracks.reduce((sum, track) => sum + (track.track_duration_seconds || 0), 0),
\* in millionths of a second
RECURSIVE TotalSeconds(_)
TotalSeconds(tracks) ==
  IF tracks = <<>> THEN 0
  ELSE TotalSeconds(SubSeq(tracks, 1, Len(tracks) - 1)) + tracks[Len(tracks)].micros

\* new Date(t): the time value of a Date is the number t with its fraction
\* dropped (TimeClip truncates towards zero); t is ms milliseconds and
\* micros thousandths of a millisecond, micros >= 0
TimeClip(ms, micros) ==
  LET whole == ms + micros \div 1000
  IN  IF whole < 0 /\ micros % 1000 # 0 THEN whole + 1 ELSE whole

\* DerivedEnd that rounds a fraction of a millisecond up
DerivedEndRoundedUp(startUtc, tracks) ==
  FormatUtcWithOffset(startUtc + TotalSeconds(tracks) \div 1000
                        + (IF TotalSeconds(tracks) % 1000 # 0 THEN 1 ELSE 0))

\* formatUtcWithOffset(new Date(new Date(startUtc).getTime() + totalSeconds * 1000))
DerivedEnd(startUtc, tracks) ==
  FormatUtcWithOffset(TimeClip(startUtc, TotalSeconds(tracks)))

\* what a page makes of the form when it is submitted: it asks for a track,
\* converts the start, derives the end and sends both; the route answers
\* 400 unless the end is after the start, and the form is cleared after a
\* success
Submitted(via, tracks) ==
  LET startUtc == ConvertSriLankaInputToUtc(form.start_time_utc, "Start time")
      endUtc == DerivedEnd(startUtc.value, tracks)
      sent == [form EXCEPT !.via = via, !.tracks = tracks]
  IN  IF tracks = <<>>
      THEN [sent EXCEPT !.stage = "failed", !.error = "tracks"]
      ELSE IF startUtc.error # ""
      THEN [sent EXCEPT !.stage = "failed", !.error = startUtc.error]
      ELSE IF EndNotAfterStart(startUtc.value, ParseDateWithOffset(endUtc))
      THEN [sent EXCEPT !.stage = "failed", !.startUtc = startUtc.value,
                        !.endUtc = endUtc,
                        !.error = "end_time_utc must be after start_time_utc."]
      ELSE [sent EXCEPT !.stage = "saved", !.startUtc = startUtc.value,
                        !.endUtc = endUtc, !.saved = startUtc.value,
                        !.start_time_utc = NoValue]

\* submitEvent of the upload page: the event is created
SubmitEvent ==
  /\ form.stage = "typed"
  /\ \E tracks \in FormTrackLists : form' = Submitted("create", tracks)
  /\ UNCHANGED serverVars

\* handleUpdateEvent of the events page: the event is updated
HandleUpdateEvent ==
  /\ form.stage = "typed"
  /\ \E tracks \in FormTrackLists : form' = Submitted("update", tracks)
  /\ UNCHANGED serverVars

\* StartEditing that fills the input with the fields of the UTC instant
StartEditingInUtc ==
  /\ form.stage = "saved"
  /\ form' = [form EXCEPT
                !.stage = "editing",
                !.start_time_utc =
                  ToSriLankaInputValue(form.saved
                                         - SriLankaOffsetMinutes * MsPerMinute)]
  /\ UNCHANGED serverVars

\* startEditing: the input is filled from the stored start
StartEditing ==
  /\ form.stage = "saved"
  /\ form' = [form EXCEPT
                !.stage = "editing",
                !.start_time_utc = ToSriLankaInputValue(form.saved)]
  /\ UNCHANGED serverVars

InitTime == StartsFrom({<<>>}) /\ fileState = "valid"

NextTime ==
  \/ HandleFormChange
  \/ SubmitEvent
  \/ HandleUpdateEvent
  \/ StartEditing

SpecTime == InitTime /\ [][NextTime]_vars

(***************************************************************************)
(* Vocabulary of the properties.                                           *)
(***************************************************************************)
HasStep(r, step) == \E i \in DOMAIN log[r] : log[r][i] = step
LastStep(steps) == IF steps = <<>> THEN "" ELSE steps[Len(steps)]

\* request r takes a step in this transition, and the step ends with `step`
Takes(r, step) == log'[r] # log[r] /\ LastStep(log'[r]) = step

DeleteKinds == {"delete", "clear", "expired"}
WriteSteps == {"write_ok", "write_fail"}
AssetSteps == {"assets_ok", "assets_fail"}
CheckSteps == {"validate_ok", "validate_fail", "found", "not_found"}
FailureSteps ==
  {"validate_fail", "not_found", "assets_fail", "write_fail", "throw"}

\* a request that has answered takes no further step
Answered(r) == pc[r] = "done" => (pc'[r] = "done" /\ log'[r] = log[r])

\* the stores are as they were
StoresUnchanged == UNCHANGED <<catalog, fileState, blobs>>

(***************************************************************************)
(* C1: when the deletion of the objects fails in delete-one, delete-all or *)
(* delete-expired, the request answers with the upstream-storage error     *)
(* (502), the catalog document is the same after the step as before it,    *)
(* and the request never writes the document.                              *)
(***************************************************************************)
C1_AssetFailureKeepsCatalog ==
  [][\A r \in Reqs :
       /\ Takes(r, "assets_fail") =>
            /\ kind[r] \in DeleteKinds
            /\ pc'[r] = "done"
            /\ resp'[r].status = 502
            /\ UNCHANGED <<catalog, fileState>>
       /\ HasStep(r, "assets_fail") =>
            /\ Answered(r)
            /\ \A i \in DOMAIN log[r] : log[r][i] \notin WriteSteps]_vars

\* delete-expired failed to delete an object of an expired event while
\* another of its objects was deleted
C1_Witness ==
  \E r \in Reqs :
    /\ kind[r] = "expired"
    /\ resp[r].status = 502
    /\ HasStep(r, "assets_fail")
    /\ pending[r] # snap[r]
    /\ blobs # AllUrls
    /\ ReadEventsFile = snap[r]

(***************************************************************************)
(* C2 as claimed: under any interleaving, an event leaves the persisted    *)
(* catalog only in the write of a request whose deletion of the objects of *)
(* that event has succeeded, so that none of its objects is in the blob    *)
(* store any more.                                                         *)
(***************************************************************************)
Persisted == ReadEventsFile

C2_Original ==
  [][\A i \in DOMAIN Persisted :
       Persisted[i].event_id \notin Ids(Persisted') =>
         /\ \E r \in Reqs :
              /\ Takes(r, "write_ok")
              /\ HasStep(r, "assets_ok")
              /\ Persisted[i] \in Range(doomed[r])
         /\ Range(EventUrls(Persisted[i])) \cap blobs' = {}]_vars

(***************************************************************************)
(* C2 as amended: the write of a request leaves out an event of the        *)
(* snapshot the request itself read only if the request's deletion of the  *)
(* objects of that event has succeeded, and then none of the event's       *)
(* objects is in the blob store.  (An event that another request wrote     *)
(* after the snapshot was read is dropped by the stale write with its      *)
(* objects still stored: the last write wins.)                             *)
(***************************************************************************)
C2_SnapshotEventsLeaveAfterAssets ==
  [][\A r \in Reqs :
       Takes(r, "write_ok") =>
         /\ Persisted' = pending[r]
         /\ \A i \in DOMAIN snap[r] :
              snap[r][i].event_id \notin Ids(Persisted') =>
                /\ kind[r] \in DeleteKinds
                /\ HasStep(r, "assets_ok")
                /\ snap[r][i] \in Range(doomed[r])
                /\ Range(EventUrls(snap[r][i])) \cap blobs' = {}]_vars

\* delete-one has removed an event of a catalog of two while the other
\* request was in flight, and the other event is still persisted
C2_Witness ==
  \E r \in Reqs, q \in Reqs :
    /\ kind[r] = "delete"
    /\ LastStep(log[r]) = "write_ok"
    /\ Len(snap[r]) = 2
    /\ Persisted = pending[r]
    /\ Len(Persisted) = 1
    /\ q # r
    /\ pc[q] \in {"read", "write", "assets"}

(***************************************************************************)
(* C3: the steps of an operation come in a fixed order.  The body is       *)
(* validated and the event is looked up before any write of the catalog    *)
(* and before any deletion of objects; in the delete routes the deletion   *)
(* of the objects comes before the write; a step that fails is the last    *)
(* step of its request.  The catalog changes only in a write step and the  *)
(* blob store only in a deletion step.                                     *)
(***************************************************************************)
OrderedSteps(k, steps, removes) ==
  /\ \A i \in DOMAIN steps, j \in DOMAIN steps :
       /\ (i < j /\ steps[j] \in CheckSteps) =>
            steps[i] \notin WriteSteps \cup AssetSteps
       /\ (i < j /\ steps[j] \in AssetSteps) => steps[i] \notin WriteSteps
       /\ steps[i] \in FailureSteps => i = Len(steps)
  /\ \A j \in DOMAIN steps :
       steps[j] \in WriteSteps \cup AssetSteps =>
         /\ k \in {"create", "update"} =>
              \E i \in 1..(j - 1) : steps[i] = "validate_ok"
         /\ k \in {"update", "delete"} => \E i \in 1..(j - 1) : steps[i] = "found"
         /\ (k \in DeleteKinds /\ removes /\ steps[j] \in WriteSteps) =>
              \E i \in 1..(j - 1) : steps[i] = "assets_ok"
         /\ steps[j] \in AssetSteps => k \in DeleteKinds

C3_StepsInOrder ==
  [][/\ \A r \in Reqs :
          /\ OrderedSteps(kind'[r], log'[r], doomed'[r] # <<>>)
          /\ Answered(r)
          /\ (pc[r] = "done") = (resp[r].status # 0)
          /\ (pc[r] = "done" /\ LastStep(log[r]) \in FailureSteps) =>
               resp[r].status \in {400, 404, 500, 502}
     /\ (catalog' # catalog \/ fileState' # fileState) =>
          \E r \in Reqs : Takes(r, "write_ok")
     /\ blobs' # blobs => \E r \in Reqs : Takes(r, "assets_ok") \/ Takes(r, "assets_fail")
    ]_vars

\* a delete-one has gone through all its steps, and an update has stopped
\* at its failed validation
C3_Witness ==
  \E r \in Reqs, q \in Reqs :
    /\ kind[r] = "delete"
    /\ log[r] = <<"read", "found", "assets_ok", "write_ok">>
    /\ kind[q] = "update"
    /\ log[q] = <<"read", "found", "validate_fail">>

(***************************************************************************)
(* C4: every event of the persisted catalog ends strictly after it starts, *)
(* after any interleaving of create, update and delete requests on a       *)
(* catalog that started that way.                                          *)
(***************************************************************************)
C4_EndAfterStart ==
  \A i \in DOMAIN Persisted :
    Persisted[i].end_time_utc > Persisted[i].start_time_utc

\* an update that supplied a time has been persisted next to a created event
C4_Witness ==
  \E r \in Reqs, q \in Reqs :
    /\ kind[r] = "create"
    /\ resp[r].status = 201
    /\ kind[q] = "update"
    /\ resp[q].status = 200
    /\ lastIn.req = q
    /\ Keys(lastIn.body) \cap {"start_time_utc", "end_time_utc"} # {}
    /\ resp[q].event \in Range(Persisted)
    /\ resp[r].event \in Range(Persisted)

(***************************************************************************)
(* C5: a create that succeeds answers 201 with the new event, whose        *)
(* event_id no event of the snapshot has, and persists the snapshot with   *)
(* the new event appended at its end: one event more, every event of the   *)
(* snapshot unchanged at its position.  A body with valid names, an end    *)
(* after the start and a valid track list passes validation.               *)
(***************************************************************************)
IsDate(j) == IsString(j) /\ j.v \in {DateString(t) : t \in 0..9}
IsName(j) == IsString(j) /\ \E i \in DOMAIN j.v : j.v[i] # " "
IsTrackList(j) ==
  /\ j.k = "array"
  /\ Len(j.v) >= 1
  /\ \A i \in DOMAIN j.v :
       /\ j.v[i].track_id # "" /\ j.v[i].track_name # ""
       /\ j.v[i].track_url # <<>> /\ j.v[i].track_duration_seconds >= 0

ValidCreate(body) ==
  /\ body.json = "ok"
  /\ IsName(body.event_name)
  /\ IsName(body.artist_name)
  /\ IsDate(body.start_time_utc)
  /\ IsDate(body.end_time_utc)
  /\ ParseDate(body.end_time_utc.v) > ParseDate(body.start_time_utc.v)
  /\ IsTrackList(body.tracks)

C5_CreateAppends ==
  [][\A r \in Reqs :
       /\ (kind[r] = "none" /\ kind'[r] = "create" /\ ValidCreate(lastIn'.body)) =>
            (pc'[r] = "read" /\ ev'[r].event_id \notin Ids(Persisted))
       /\ (kind[r] = "create" /\ Takes(r, "write_ok")) =>
            /\ resp'[r].status = 201
            /\ resp'[r].event.event_id \notin Ids(snap[r])
            /\ Persisted' = Append(snap[r], resp'[r].event)
            /\ Len(Persisted') = Len(snap[r]) + 1
            /\ \A i \in DOMAIN snap[r] : Persisted'[i] = snap[r][i]
       /\ (kind'[r] = "create" /\ resp'[r].status = 201) =>
            LastStep(log'[r]) = "write_ok"]_vars

\* a create has appended its event to a snapshot of two events
C5_Witness ==
  \E r \in Reqs :
    /\ kind[r] = "create"
    /\ resp[r].status = 201
    /\ Len(snap[r]) = 2
    /\ Persisted = Append(snap[r], resp[r].event)

(***************************************************************************)
(* C6: a create whose body fails validation (text that is not JSON, an     *)
(* empty or non-string event_name or artist_name, an invalid start or end  *)
(* time, an end not after the start, an invalid track list) answers with a *)
(* validation error (400) and neither reads nor writes the catalog.        *)
(***************************************************************************)
InvalidCreate(body) ==
  \/ body.json = "bad"
  \/ /\ body.json = "ok"
     /\ \/ ~IsName(body.event_name)
        \/ ~IsName(body.artist_name)
        \/ ~IsDate(body.start_time_utc)
        \/ ~IsDate(body.end_time_utc)
        \/ ParseDate(body.end_time_utc.v) <= ParseDate(body.start_time_utc.v)
        \/ ~IsTrackList(body.tracks)

C6_InvalidCreateRejected ==
  [][\A r \in Reqs :
       /\ (kind[r] = "none" /\ kind'[r] = "create" /\ InvalidCreate(lastIn'.body)) =>
            /\ pc'[r] = "done"
            /\ resp'[r].status = 400
            /\ resp'[r].error # ""
            /\ log'[r] = <<"validate_fail">>
            /\ StoresUnchanged
       /\ (kind[r] = "create" /\ HasStep(r, "validate_fail")) =>
            (Answered(r) /\ snap[r] = <<>> /\ pending[r] = <<>>)]_vars

\* a create with an end equal to or before its start was rejected while the
\* catalog held events
C6_Witness ==
  \E r \in Reqs :
    /\ kind[r] = "create"
    /\ lastIn.req = r
    /\ resp[r] = ErrorResponse(400, "end_time_utc must be after start_time_utc.")
    /\ IsTrackList(lastIn.body.tracks)
    /\ Persisted # <<>>

(***************************************************************************)
(* C7: create reports a validation failure as 400 and a failed write of    *)
(* the catalog as 500 "Failed to save the event to disk."; the latter only *)
(* after validation has passed, and then the persisted catalog does not    *)
(* hold the new event.                                                     *)
(***************************************************************************)
C7_CreateErrorKinds ==
  \A r \in Reqs :
    (kind[r] = "create" /\ pc[r] = "done") =>
      /\ (resp[r].status = 400) = (LastStep(log[r]) = "validate_fail")
      /\ (resp[r].error = "Failed to save the event to disk.") =
           (LastStep(log[r]) = "write_fail")
      /\ LastStep(log[r]) = "write_fail" =>
           /\ resp[r].status = 500
           /\ log[r] = <<"validate_ok", "read", "write_fail">>
           /\ ev[r].event_id \notin Ids(Persisted)
           /\ ev[r] \notin Range(Persisted)

\* a create passed validation and failed to write
C7_Witness ==
  \E r \in Reqs :
    /\ kind[r] = "create"
    /\ resp[r] = ErrorResponse(500, "Failed to save the event to disk.")
    /\ Persisted = snap[r]
    /\ Persisted # <<>>

(***************************************************************************)
(* C8: a partial update that succeeds changes only the fields whose keys   *)
(* are in the body: every field of the event whose key is absent has, in   *)
(* the persisted record and in the answer, the value it had in the record  *)
(* the request read.                                                       *)
(***************************************************************************)
UpdatableFields ==
  {"event_name", "artist_name", "start_time_utc", "end_time_utc", "tracks",
   "cover_image_url"}

\* the record of the snapshot that the request addresses
Current(r) ==
  CHOOSE e \in Range(snap[r]) : e.event_id = target[r]

\* the place of that record in the snapshot
Place(r) ==
  CHOOSE i \in DOMAIN snap[r] : snap[r][i].event_id = target[r]

C8_AbsentFieldsUntouched ==
  [][\A r \in Reqs :
       /\ (kind[r] = "none" /\ kind'[r] = "update" /\ pc'[r] = "write") =>
            \A f \in (UpdatableFields \cup {"event_id"}) \ Keys(lastIn'.body) :
              /\ ev'[r][f] = Current(r)'[f]
              /\ pending'[r][Place(r)'][f] = Current(r)'[f]
       /\ (kind[r] = "update" /\ Takes(r, "write_ok")) =>
            /\ resp'[r] = EventResponse(200, ev[r])
            /\ Persisted' = pending[r]
            /\ Persisted'[Place(r)] = ev[r]
       /\ (kind'[r] = "update" /\ resp'[r].status = 200) =>
            LastStep(log'[r]) = "write_ok"]_vars

\* an update of the name alone was persisted for an event with a cover,
\* which kept its tracks, times and cover
C8_Witness ==
  \E r \in Reqs :
    /\ kind[r] = "update"
    /\ lastIn.req = r
    /\ Keys(lastIn.body) = {"event_name"}
    /\ target[r] \in Ids(snap[r])
    /\ resp[r].status = 200
    /\ Persisted = pending[r]
    /\ Current(r).cover_image_url # NoCover
    /\ resp[r].event.cover_image_url = Current(r).cover_image_url
    /\ resp[r].event.tracks = Current(r).tracks
    /\ resp[r].event.event_name # Current(r).event_name

(***************************************************************************)
(* C9: an update is rejected with a validation error (400), and the        *)
(* catalog is left as it is, whenever the record with all supplied fields  *)
(* applied ends at or before its start; also when only one of the two      *)
(* times is supplied and the other is the stored one.                      *)
(***************************************************************************)
\* the time of the record after the update: the supplied one if its key is
\* in the body, the stored one otherwise
MergedTime(body, event, f) ==
  IF body[f].k = "absent" THEN event[f] ELSE ParseDate(body[f].v)

SuppliedTimesAreDates(body) ==
  \A f \in {"start_time_utc", "end_time_utc"} :
    body[f].k = "absent" \/ IsDate(body[f])

C9_UpdateEndNotAfterStartRejected ==
  [][\A r \in Reqs :
       /\ ( /\ kind[r] = "none" /\ kind'[r] = "update"
            /\ target'[r] \in Ids(Persisted)
            /\ lastIn'.body.json = "ok"
            /\ SuppliedTimesAreDates(lastIn'.body)
            /\ MergedTime(lastIn'.body, Current(r)', "end_time_utc")
                 <= MergedTime(lastIn'.body, Current(r)', "start_time_utc") ) =>
            /\ pc'[r] = "done"
            /\ resp'[r].status = 400
            /\ LastStep(log'[r]) = "validate_fail"
            /\ pending'[r] = <<>>
            /\ StoresUnchanged
       /\ (kind[r] = "update" /\ HasStep(r, "validate_fail")) =>
            (Answered(r) /\ pending[r] = <<>>)]_vars

\* an update that supplied only a start at or after the stored end was
\* rejected for the order of its times
C9_Witness ==
  \E r \in Reqs :
    /\ kind[r] = "update"
    /\ lastIn.req = r
    /\ Keys(lastIn.body) = {"start_time_utc"}
    /\ target[r] \in Ids(snap[r])
    /\ IsDate(lastIn.body.start_time_utc)
    /\ ParseDate(lastIn.body.start_time_utc.v) >= Current(r).end_time_utc
    /\ resp[r] = ErrorResponse(400, "end_time_utc must be after start_time_utc.")
    /\ Persisted = snap[r]

(***************************************************************************)
(* C10: an update whose eventId matches no event of the catalog answers    *)
(* not-found (404) and changes nothing: no write of the catalog, no        *)
(* deletion of objects.                                                    *)
(***************************************************************************)
C10_UpdateUnknownIdNotFound ==
  [][\A r \in Reqs :
       /\ ( /\ kind[r] = "none" /\ kind'[r] = "update"
            /\ target'[r] \notin Ids(Persisted) ) =>
            /\ pc'[r] = "done"
            /\ resp'[r] = ErrorResponse(404, "Event not found.")
            /\ log'[r] = <<"read", "not_found">>
            /\ pending'[r] = <<>>
            /\ StoresUnchanged
       /\ (kind[r] = "update" /\ HasStep(r, "not_found")) => Answered(r)
       /\ (kind'[r] = "update" /\ resp'[r].status = 404) =>
            target'[r] \notin Ids(snap'[r])]_vars

\* an update with a valid body addressed an id that the catalog, which held
\* events, did not hold
C10_Witness ==
  \E r \in Reqs :
    /\ kind[r] = "update"
    /\ lastIn.req = r
    /\ Keys(lastIn.body) = {"event_name"}
    /\ IsName(lastIn.body.event_name)
    /\ resp[r].status = 404
    /\ snap[r] # <<>>
    /\ Persisted = snap[r]

(***************************************************************************)
(* C11: a delete-one whose eventId matches no event of the catalog answers *)
(* not-found (404) and leaves the catalog document exactly as it is: the   *)
(* request writes nothing and deletes no object.                           *)
(***************************************************************************)
C11_DeleteUnknownIdNotFound ==
  [][\A r \in Reqs :
       /\ ( /\ kind[r] = "none" /\ kind'[r] = "delete"
            /\ target'[r] \notin Ids(Persisted) ) =>
            /\ pc'[r] = "done"
            /\ resp'[r] = ErrorResponse(404, "Event not found.")
            /\ log'[r] = <<"read", "not_found">>
            /\ pending'[r] = <<>>
            /\ doomed'[r] = <<>>
            /\ StoresUnchanged
       /\ (kind[r] = "delete" /\ HasStep(r, "not_found")) =>
            (Answered(r) /\ log[r] = <<"read", "not_found">>)
       /\ (kind'[r] = "delete" /\ resp'[r].status = 404) =>
            target'[r] \notin Ids(snap'[r])]_vars

\* a delete-one was answered not-found for an event that another delete-one
\* had removed before, and the catalog still holds the other event
C11_Witness ==
  \E r \in Reqs, q \in Reqs :
    /\ kind[r] = "delete" /\ resp[r].status = 200
    /\ kind[q] = "delete" /\ target[q] = target[r]
    /\ resp[q] = ErrorResponse(404, "Event not found.")
    /\ Persisted = snap[q]
    /\ Persisted # <<>>

(***************************************************************************)
(* C12: a delete-one of an event of the catalog deletes exactly the        *)
(* objects at that event's track URLs and at its cover URL, if it has one; *)
(* only after that deletion has succeeded it persists the snapshot without *)
(* that one record, every other event unchanged and in its order, and      *)
(* answers with the snapshot's length minus 1 as the remaining count.      *)
(***************************************************************************)
\* the URLs that an event references
AssetsOf(event) ==
  {event.tracks[i].track_url : i \in DOMAIN event.tracks}
    \cup (IF event.cover_image_url = NoCover THEN {} ELSE {event.cover_image_url})

C12_DeleteOneRemovesOneRecord ==
  [][\A r \in Reqs :
       /\ (kind[r] = "delete" /\ Takes(r, "assets_ok")) =>
            /\ target[r] \in Ids(snap[r])
            /\ blobs' = blobs \ AssetsOf(Current(r))
            /\ UNCHANGED <<catalog, fileState>>
       /\ (kind[r] = "delete" /\ Takes(r, "assets_fail")) =>
            blobs \ blobs' \subseteq AssetsOf(Current(r))
       /\ (kind[r] = "delete" /\ Takes(r, "write_ok")) =>
            /\ HasStep(r, "assets_ok")
            /\ Len(Persisted') = Len(snap[r]) - 1
            /\ \A i \in DOMAIN snap[r] :
                 /\ i < Place(r) => Persisted'[i] = snap[r][i]
                 /\ i > Place(r) => Persisted'[i - 1] = snap[r][i]
            /\ resp'[r] = CountResponse(target[r], Len(snap[r]) - 1)
            /\ blobs' = blobs
       /\ (kind'[r] = "delete" /\ resp'[r].status = 200) =>
            LastStep(log'[r]) = "write_ok"]_vars

\* a delete-one has removed the first of two events, which had a cover, and
\* the second is what the catalog holds
C12_Witness ==
  \E r \in Reqs :
    /\ kind[r] = "delete"
    /\ resp[r] = CountResponse(1, 1)
    /\ Len(snap[r]) = 2
    /\ snap[r][1].cover_image_url # NoCover
    /\ Persisted = <<snap[r][2]>>
    /\ blobs = AllUrls \ AssetsOf(snap[r][1])

C14_Original ==
  [][\A r \in Reqs :
       /\ (kind[r] \in DeleteKinds /\ Takes(r, "assets_ok")) =>
            \A i \in DOMAIN pending[r] :
              AssetsOf(pending[r][i]) \cap (blobs \ blobs') = {}
       /\ (kind[r] \in DeleteKinds /\ Takes(r, "write_ok")) =>
            \A i \in DOMAIN Persisted' : AssetsOf(Persisted'[i]) \subseteq blobs']_vars

(***************************************************************************)
(* C15: delete-all deletes the objects of every event of its snapshot and, *)
(* only when that deletion has succeeded, persists the empty catalog and   *)
(* answers with the snapshot's length as the deleted count.  Whatever a    *)
(* delete-all persists is the empty catalog: never some of the snapshot's  *)
(* events without the others.                                              *)
(***************************************************************************)
\* the URLs that the events of a catalog reference
AssetsOfAll(events) == UNION {AssetsOf(events[i]) : i \in DOMAIN events}

C15_DeleteAllClearsAllOrNothing ==
  [][\A r \in Reqs :
       /\ (kind[r] = "clear" /\ Takes(r, "assets_ok")) =>
            /\ blobs' = blobs \ AssetsOfAll(snap[r])
            /\ UNCHANGED <<catalog, fileState>>
       /\ (kind[r] = "clear" /\ Takes(r, "assets_fail")) =>
            /\ blobs \ blobs' \subseteq AssetsOfAll(snap[r])
            /\ resp'[r].status = 502
            /\ UNCHANGED <<catalog, fileState>>
       /\ (kind[r] = "clear" /\ Takes(r, "write_ok")) =>
            /\ snap[r] # <<>> => HasStep(r, "assets_ok")
            /\ Persisted' = <<>>
            /\ resp'[r] = CountResponse(Len(snap[r]), 0)
       /\ (kind'[r] = "clear" /\ log'[r] # log[r] /\ Persisted' # Persisted) =>
            Persisted' = <<>>
       /\ (kind'[r] = "clear" /\ resp'[r].status = 200) =>
            LastStep(log'[r]) = "write_ok"]_vars

\* a delete-all has cleared a catalog of two events and their objects
C15_Witness ==
  \E r \in Reqs :
    /\ kind[r] = "clear"
    /\ resp[r] = CountResponse(2, 0)
    /\ Persisted = <<>>
    /\ AssetsOfAll(snap[r]) \cap blobs = {}
    /\ AssetsOfAll(snap[r]) # {}

(***************************************************************************)
(* C16: a delete-expired that finds an expired event and succeeds persists *)
(* exactly the events of its snapshot whose end_time_utc is strictly later *)
(* than the now of the sweep (an event that ends at now is removed),       *)
(* deletes the objects of the removed events and of no other event's URLs, *)
(* and answers with the number of removed events as the deleted count.     *)
(***************************************************************************)
EndingAfter(events, now) ==
  SelectSeq(events, LAMBDA event : event.end_time_utc > now)
EndingBy(events, now) ==
  SelectSeq(events, LAMBDA event : event.end_time_utc <= now)

\* the events of the snapshot that the request is about to leave out
LeftOut(r) == SelectSeq(snap[r], LAMBDA event : event \notin Range(pending[r]))

C16_DeleteExpiredRemovesEndedEvents ==
  [][\A r \in Reqs :
       /\ (kind[r] = "none" /\ kind'[r] = "expired" /\ pc'[r] = "assets") =>
            /\ snap'[r] = Persisted
            /\ pending'[r] = EndingAfter(snap'[r], lastIn'.now)
            /\ LeftOut(r)' = EndingBy(snap'[r], lastIn'.now)
            /\ LeftOut(r)' # <<>>
       /\ (kind[r] = "expired" /\ Takes(r, "assets_ok")) =>
            /\ blobs' = blobs \ AssetsOfAll(LeftOut(r))
            /\ UNCHANGED <<catalog, fileState>>
       /\ (kind[r] = "expired" /\ Takes(r, "assets_fail")) =>
            blobs \ blobs' \subseteq AssetsOfAll(LeftOut(r))
       /\ (kind[r] = "expired" /\ Takes(r, "write_ok")) =>
            /\ HasStep(r, "assets_ok")
            /\ Persisted' = pending[r]
            /\ resp'[r] = CountResponse(Len(LeftOut(r)), Len(pending[r]))
            /\ Len(LeftOut(r)) >= 1
            /\ blobs' = blobs]_vars

\* a sweep at the instant at which the first of two events ends has removed
\* that event and kept the other, which ends later
C16_Witness ==
  \E r \in Reqs :
    /\ kind[r] = "expired"
    /\ lastIn.req = r
    /\ Len(snap[r]) = 2
    /\ snap[r][1].end_time_utc = lastIn.now
    /\ snap[r][2].end_time_utc > lastIn.now
    /\ resp[r] = CountResponse(1, 1)
    /\ Persisted = <<snap[r][2]>>

(***************************************************************************)
(* C17: a delete-expired on a catalog none of whose events has ended by    *)
(* the now of the sweep writes nothing and deletes no object, and answers  *)
(* with a deleted count of 0 and the length of the catalog as the          *)
(* remaining count.                                                        *)
(***************************************************************************)
C17_NothingExpiredNothingDone ==
  [][\A r \in Reqs :
       /\ ( /\ kind[r] = "none" /\ kind'[r] = "expired"
            /\ EndingBy(Persisted, lastIn'.now) = <<>> ) =>
            /\ pc'[r] = "done"
            /\ resp'[r] = CountResponse(0, Len(Persisted))
            /\ log'[r] = <<"read", "none_expired">>
            /\ pending'[r] = <<>>
            /\ doomed'[r] = <<>>
            /\ StoresUnchanged
       /\ (kind[r] = "expired" /\ HasStep(r, "none_expired")) =>
            (Answered(r) /\ log[r] = <<"read", "none_expired">>)
       /\ (kind'[r] = "expired" /\ resp'[r].status = 200 /\ resp'[r].deleted = 0) =>
            LastStep(log'[r]) = "none_expired"]_vars

\* a sweep before the end of either of two events was answered with 0
\* deleted and 2 remaining, and both stores are as at the start
C17_Witness ==
  \E r \in Reqs :
    /\ kind[r] = "expired"
    /\ lastIn.req = r
    /\ resp[r] = CountResponse(0, 2)
    /\ Persisted = snap[r]
    /\ \A i \in DOMAIN Persisted : Persisted[i].end_time_utc > lastIn.now
    /\ blobs = AllUrls

(***************************************************************************)
(* C18: a delete-one or delete-all that failed, in its deletion of the     *)
(* objects or in its write after that deletion, can be run again.  The     *)
(* failed request has left the catalog holding what it read, so the same   *)
(* request, run next, reads the same snapshot; a missing object does not   *)
(* make its deletion fail; and when the second run meets no failure of its *)
(* own it answers 200, and then the catalog holds none of the events to be *)
(* removed and the blob store none of their objects.                       *)
(***************************************************************************)
RetryFailures == {"assets_fail", "write_fail"}

\* q is the same delete as r, run right after r has failed
RetryOf(q, r) ==
  /\ q = r + 1
  /\ kind[r] \in {"delete", "clear"}
  /\ pc[r] = "done"
  /\ LastStep(log[r]) \in RetryFailures
  /\ kind[q] = kind[r]
  /\ target[q] = target[r]

C18_FailedDeleteCanBeRetried ==
  \A r \in Reqs, q \in Reqs :
    RetryOf(q, r) =>
      /\ snap[q] = snap[r]
      /\ pending[q] = pending[r]
      /\ ~HasStep(q, "not_found")
      /\ (pc[q] = "done" /\ LastStep(log[q]) \notin RetryFailures) =>
           /\ resp[q].status = 200
           /\ LastStep(log[q]) = "write_ok"
           /\ (\A p \in Reqs : p > q => kind[p] = "none") =>
                /\ Persisted = pending[r]
                /\ \A i \in DOMAIN LeftOut(r) :
                     /\ LeftOut(r)[i].event_id \notin Ids(Persisted)
                     /\ AssetsOf(LeftOut(r)[i]) \cap blobs = {}

\* a delete-one whose write failed after its objects were deleted was run
\* again and has removed the event, whose objects were missing by then
C18_Witness ==
  \E r \in Reqs, q \in Reqs :
    /\ RetryOf(q, r)
    /\ kind[r] = "delete"
    /\ log[r] = <<"read", "found", "assets_ok", "write_fail">>
    /\ log[q] = <<"read", "found", "assets_ok", "write_ok">>
    /\ resp[q].status = 200
    /\ target[r] \notin Ids(Persisted)
    /\ Persisted # <<>>
    /\ AssetsOf(ev[r]) \cap blobs = {}

(***************************************************************************)
(* C19: when requests that read the catalog and then write it race, the    *)
(* catalog after a write is the whole document of that writer, made from   *)
(* the snapshot the writer read, with nothing merged in: a record that     *)
(* another request wrote after that snapshot was read is not in it, though *)
(* each writer is answered with success.  So the catalog after a race is   *)
(* the document of the write that completed last.                          *)
(***************************************************************************)
C19_LastWriteWins ==
  [][\A r \in Reqs :
       Takes(r, "write_ok") =>
         /\ resp'[r].status \in {200, 201}
         /\ \A i \in DOMAIN Persisted' :
              \/ Persisted'[i] \in Range(snap[r])
              \/ kind[r] \in {"create", "update"} /\ Persisted'[i] = ev[r]
         /\ \A i \in DOMAIN Persisted :
              (Persisted[i] \notin Range(snap[r]) /\ Persisted[i] # ev[r]) =>
                Persisted[i] \notin Range(Persisted')
         /\ kind[r] = "create" => Persisted' = Append(snap[r], ev[r])
         /\ kind[r] = "update" =>
              Persisted' = [snap[r] EXCEPT ![Place(r)] = ev[r]]
         /\ kind[r] \in DeleteKinds =>
              /\ Len(Persisted') <= Len(snap[r])
              /\ Range(Persisted') \subseteq Range(snap[r])]_vars

\* two creates were both answered 201 and the catalog holds the event of
\* the one but not the event of the other
C19_Witness ==
  \E r \in Reqs, q \in Reqs :
    /\ kind[r] = "create" /\ resp[r].status = 201
    /\ kind[q] = "create" /\ resp[q].status = 201
    /\ snap[q] = snap[r]
    /\ resp[r].event \notin Range(Persisted)
    /\ Persisted = Append(snap[q], resp[q].event)

(***************************************************************************)
(* C20: a read of the catalog that runs while other requests write it      *)
(* returns a whole document: the one that was there before a write, or the *)
(* one a write has put there, never a mixture of two documents and never a *)
(* part of one.  The document that can be read changes only in a write     *)
(* that succeeds, and then it is all of what the writer wrote; every read  *)
(* returns the document as it is at that instant, and the list route       *)
(* answers with all of its events.                                         *)
(***************************************************************************)
\* r reads the catalog in this transition
Reads(r) == ~HasStep(r, "read") /\ HasStep(r, "read")'

C20_ReadsSeeWholeDocuments ==
  [][/\ \A r \in Reqs :
          /\ Reads(r) => snap'[r] = Persisted
          /\ (Reads(r) /\ kind'[r] = "list") =>
               /\ resp'[r].status = 200
               /\ Len(resp'[r].events) = Len(Persisted)
               /\ Range(resp'[r].events) = Range(Persisted)
               /\ StoresUnchanged
          /\ Takes(r, "write_ok") => Persisted' = pending[r]
          /\ Takes(r, "write_fail") => Persisted' = Persisted
     /\ Persisted' # Persisted => \E r \in Reqs : Takes(r, "write_ok")]_vars

\* a list request read both events of the catalog after a delete-one had
\* read it and before that delete-one wrote the catalog without one of them
C20_Witness ==
  \E r \in Reqs, q \in Reqs :
    /\ q < r
    /\ kind[q] = "delete" /\ resp[q].status = 200
    /\ kind[r] = "list"
    /\ snap[r] = snap[q]
    /\ Len(resp[r].events) = 2
    /\ Range(resp[r].events) = Range(snap[q])
    /\ Persisted = pending[q]
    /\ Len(Persisted) = 1

(***************************************************************************)
(* C21: after any interleaving of requests the event_ids of the events of  *)
(* the persisted catalog are pairwise distinct, and an update leaves the   *)
(* event_id of its record as it was, also when the body has an event_id    *)
(* key: the record it persists and answers with has the id of the path.    *)
(***************************************************************************)
DistinctIds(events) ==
  \A i \in DOMAIN events, j \in DOMAIN events :
    i # j => events[i].event_id # events[j].event_id

C21_EventIdsUniqueAndImmutable ==
  [][/\ DistinctIds(Persisted)
     /\ DistinctIds(Persisted')
     /\ \A r \in Reqs :
          /\ (kind[r] = "none" /\ kind'[r] = "update" /\ pc'[r] = "write") =>
               /\ ev'[r].event_id = target'[r]
               /\ Ids(pending'[r]) = Ids(Persisted)
          /\ (kind[r] = "update" /\ Takes(r, "write_ok")) =>
               /\ resp'[r].event.event_id = target[r]
               /\ Persisted'[Place(r)].event_id = snap[r][Place(r)].event_id
               /\ Ids(Persisted') = Ids(snap[r])]_vars

\* an update whose body had an event_id key was persisted under the id of
\* its path, next to another event
C21_Witness ==
  \E r \in Reqs :
    /\ kind[r] = "update"
    /\ lastIn.req = r
    /\ "event_id" \in Keys(lastIn.body)
    /\ resp[r].status = 200
    /\ resp[r].event.event_id = target[r]
    /\ resp[r].event \in Range(Persisted)
    /\ Len(Persisted) >= 2

(***************************************************************************)
(* C22: every event of the persisted catalog has at least one track, after *)
(* any create or update on a catalog of which that was true.  A create     *)
(* whose body has no tracks key or an empty track list, and an update      *)
(* whose body has a tracks key with an empty list, are rejected with a     *)
(* validation error (400) and change nothing.                              *)
(***************************************************************************)
HaveTracks(events) == \A i \in DOMAIN events : Len(events[i].tracks) >= 1

NoTrackList(j) == j.k = "absent" \/ (j.k = "array" /\ j.v = <<>>)

C22_EventsKeepATrack ==
  [][/\ HaveTracks(Persisted) /\ HaveTracks(Persisted')
     /\ \A r \in Reqs :
          /\ ( /\ kind[r] = "none" /\ kind'[r] = "create"
               /\ lastIn'.body.json = "ok"
               /\ NoTrackList(lastIn'.body.tracks) ) =>
               /\ pc'[r] = "done"
               /\ resp'[r].status = 400
               /\ StoresUnchanged
          /\ ( /\ kind[r] = "none" /\ kind'[r] = "update"
               /\ target'[r] \in Ids(Persisted)
               /\ lastIn'.body.json = "ok"
               /\ lastIn'.body.tracks.k = "array"
               /\ lastIn'.body.tracks.v = <<>> ) =>
               /\ pc'[r] = "done"
               /\ resp'[r].status = 400
               /\ pending'[r] = <<>>
               /\ StoresUnchanged
          /\ (kind'[r] \in {"create", "update"} /\ pc'[r] = "write") =>
               (Len(ev'[r].tracks) >= 1 /\ HaveTracks(pending'[r]))]_vars

\* an update whose only key was tracks, with an empty list, was rejected
\* and its event keeps its tracks
C22_Witness ==
  \E r \in Reqs :
    /\ kind[r] = "update"
    /\ lastIn.req = r
    /\ Keys(lastIn.body) = {"tracks"}
    /\ lastIn.body.tracks = JTracks(<<>>)
    /\ target[r] \in Ids(Persisted)
    /\ resp[r].status = 400
    /\ Persisted = snap[r]
    /\ HaveTracks(Persisted)

(***************************************************************************)
(* C23 as claimed: in every event that a create or an update has           *)
(* persisted, the track_ids of the track list are pairwise distinct.       *)
(***************************************************************************)
DistinctTrackIds(tracks) ==
  \A i \in DOMAIN tracks, j \in DOMAIN tracks :
    i # j => tracks[i].track_id # tracks[j].track_id

C23_Original ==
  \A i \in DOMAIN Persisted : DistinctTrackIds(Persisted[i].tracks)

(***************************************************************************)
(* C24: an update deletes nothing from the blob store.  No step of an      *)
(* update changes the blob store, so when an update has replaced the track *)
(* list or the cover of its event, every object that the event referenced  *)
(* before and that was stored is still stored.                             *)
(***************************************************************************)
C24_UpdateDeletesNoObject ==
  [][\A r \in Reqs :
       /\ (kind'[r] = "update" /\ log'[r] # log[r]) => blobs' = blobs
       /\ (kind[r] = "update" /\ Takes(r, "write_ok")) =>
            /\ AssetsOf(Current(r)) \cap blobs \subseteq blobs'
            /\ ~HasStep(r, "assets_ok") /\ ~HasStep(r, "assets_fail")]_vars

\* an update has replaced the tracks of an event whose track and cover are
\* both still stored, though the event no longer references the track
C24_Witness ==
  \E r \in Reqs :
    /\ kind[r] = "update"
    /\ resp[r].status = 200
    /\ target[r] \in Ids(snap[r])
    /\ Persisted = pending[r]
    /\ AssetsOf(Current(r)) \ AssetsOf(resp[r].event) # {}
    /\ AssetsOf(Current(r)) \subseteq blobs
    /\ blobs = AllUrls

\* how often the record occurs in the list
Occurrences(record, events) ==
  Cardinality({i \in DOMAIN events : events[i] = record})

\* listed holds the records of stored, each as often as stored does
IsPermutation(listed, stored) ==
  /\ Len(listed) = Len(stored)
  /\ \A i \in DOMAIN stored :
       Occurrences(stored[i], listed) = Occurrences(stored[i], stored)

\* no event of the list starts before an earlier one
AscendingByStart(events) ==
  \A i \in DOMAIN events, j \in DOMAIN events :
    i < j => events[i].start_time_utc <= events[j].start_time_utc

\* two events of stored that start together are listed in their stored order
KeepsOrderOfEqualStarts(listed, stored) ==
  \A i \in DOMAIN stored, j \in DOMAIN stored :
    (i < j /\ stored[i].start_time_utc = stored[j].start_time_utc) =>
      \E k \in DOMAIN listed, l \in DOMAIN listed :
        k < l /\ listed[k] = stored[i] /\ listed[l] = stored[j]

(***************************************************************************)
(* C25: read-all answers 200 with a permutation of the stored catalog in   *)
(* ascending order of start_time_utc, events of equal start in their       *)
(* stored order, and leaves the catalog document and the blob store as     *)
(* they were, the order of the stored records included.                    *)
(***************************************************************************)
C25_ListSortsACopy ==
  [][\A r \in Reqs :
       (kind'[r] = "list" /\ log'[r] # log[r]) =>
         /\ resp'[r].status = 200
         /\ IsPermutation(resp'[r].events, Persisted)
         /\ AscendingByStart(resp'[r].events)
         /\ KeepsOrderOfEqualStarts(resp'[r].events, Persisted)
         /\ StoresUnchanged]_vars

\* a read-all has answered a catalog that is stored out of order and has
\* two events of the same start: the answer is in another order than the
\* document that is still stored
C25_Witness ==
  \E r \in Reqs :
    /\ kind[r] = "list"
    /\ resp[r].status = 200
    /\ snap[r] = Persisted
    /\ ~AscendingByStart(Persisted)
    /\ \E i \in DOMAIN Persisted, j \in DOMAIN Persisted :
         i < j /\ Persisted[i].start_time_utc = Persisted[j].start_time_utc
    /\ resp[r].events # Persisted

\* the response is a success payload and carries no error
IsSuccess(response) == response.status = 200 /\ response.error = ""

\* the response is one error and carries no payload
IsError(response) ==
  /\ response.status >= 400
  /\ response.error # ""
  /\ response = ErrorResponse(response.status, response.error)

NoCoverAsked(j) == j.k \in {"absent", "null"} \/ j = JStr(<<>>)
CoverAsked(j) == IsString(j) /\ Trim(j.v) # <<>>
NotACover(j) == ~IsString(j) /\ j.k \notin {"absent", "null"}

\* what the request made of the cover of its body: the event it goes on
\* with has the cover asked for, or the request is rejected and the stores
\* are as they were
CoverTreated(r, j) ==
  /\ NoCoverAsked(j) => (pc'[r] # "done" /\ ev'[r].cover_image_url = NoCover)
  /\ CoverAsked(j) => (pc'[r] # "done" /\ ev'[r].cover_image_url = Trim(j.v))
  /\ NotACover(j) =>
       /\ pc'[r] = "done"
       /\ resp'[r].status = 400
       /\ resp'[r].error # ""
       /\ StoresUnchanged

(***************************************************************************)
(* C27: create and update treat cover_image_url alike.  In a create that   *)
(* is valid in its other fields, and in an update of an existing event     *)
(* that supplies the cover alone, an absent (in an update: null) or empty  *)
(* value gives an event without cover, a string with text gives the        *)
(* trimmed text as cover, and a value of another type, such as a number,   *)
(* is rejected with a validation error and changes nothing.                *)
(***************************************************************************)
C27_Original ==
  [][\A r \in Reqs :
       /\ (kind[r] = "none" /\ kind'[r] = "create" /\ ValidCreate(lastIn'.body)) =>
            CoverTreated(r, lastIn'.body.cover_image_url)
       /\ ( /\ kind[r] = "none" /\ kind'[r] = "update"
            /\ target'[r] \in Ids(Persisted)
            /\ lastIn'.body.json = "ok"
            /\ Keys(lastIn'.body) = {"cover_image_url"} ) =>
            CoverTreated(r, lastIn'.body.cover_image_url)]_vars

(***************************************************************************)
(* C28: a valid wall-clock time typed into the start input, converted to   *)
(* its UTC instant with the fixed offset and converted back, is the time   *)
(* that was typed: whenever the form shows a saved start again, it shows   *)
(* what the operator entered, and the saved instant is a whole minute.     *)
(***************************************************************************)
C28_LocalTimeRoundTrips ==
  /\ form.stage = "editing" =>
       /\ form.start_time_utc = form.typed
       /\ ToSriLankaInputValue(ConvertSriLankaInputToUtc(form.typed, "").value)
            = form.typed
       /\ form.saved % MsPerMinute = 0
  /\ form.stage = "failed" => form.saved = 0

\* the form shows again a time typed before 05:30 of a day, whose instant
\* is in the day before in UTC
C28_Witness ==
  /\ form.stage = "editing"
  /\ form.typed = InputValue(1, 5, 29)
  /\ form.saved = ((MinutesPerDay - 1) * MsPerMinute)
  /\ form.start_time_utc = InputValue(1, 5, 29)

(***************************************************************************)
(* C29: when the catalog document is missing or cannot be parsed, read-all *)
(* answers 200 with an empty list, not an error, and leaves the document   *)
(* as it found it.                                                         *)
(***************************************************************************)
C29_ListOfBadDocumentIsEmpty ==
  [][\A r \in Reqs :
       ( /\ kind[r] = "none" /\ kind'[r] = "list"
         /\ fileState \in {"missing", "corrupt"} ) =>
         /\ pc'[r] = "done"
         /\ resp'[r] = ListResponse(<<>>)
         /\ resp'[r].status = 200 /\ resp'[r].error = ""
         /\ StoresUnchanged]_vars

\* a read-all has answered 200 with no events while the document cannot be
\* parsed
C29_Witness ==
  \E r \in Reqs :
    /\ kind[r] = "list"
    /\ fileState = "corrupt"
    /\ resp[r].status = 200
    /\ resp[r].events = <<>>

(***************************************************************************)
(* C30: a successful update persists a catalog as long as the snapshot it  *)
(* read, with the modified record at the place of the original and every   *)
(* other event as it was and where it was.                                 *)
(***************************************************************************)
C30_UpdateInPlace ==
  [][\A r \in Reqs :
       (kind[r] = "update" /\ Takes(r, "write_ok")) =>
         /\ resp'[r].status = 200
         /\ Len(Persisted') = Len(snap[r])
         /\ Persisted'[Place(r)] = resp'[r].event
         /\ Persisted'[Place(r)].event_id = target[r]
         /\ \A i \in DOMAIN snap[r] : i # Place(r) => Persisted'[i] = snap[r][i]]_vars

\* an update has changed the first of two or more events, which is still
\* the first of the persisted catalog, in front of the ones it did not touch
C30_Witness ==
  \E r \in Reqs :
    /\ kind[r] = "update"
    /\ resp[r].status = 200
    /\ Len(snap[r]) >= 2
    /\ target[r] = snap[r][1].event_id
    /\ Persisted = pending[r]
    /\ Persisted[1] = resp[r].event
    /\ Persisted[1] # snap[r][1]
    /\ Persisted[2] = snap[r][2]

\* a page has sent a start and the end it derived from the tracks
Sent == form.via # "" /\ form.endUtc # NoValue

\* the instants the route reads from what was sent, in milliseconds, and the
\* sum of the durations of the tracks, in thousandths of a millisecond
SentStart == form.startUtc
SentEnd == ParseDateWithOffset(form.endUtc)
SentDurations == TotalSeconds(form.tracks)

\* the route has answered that the end is not after the start
EndRejected ==
  /\ form.stage = "failed"
  /\ form.error = "end_time_utc must be after start_time_utc."

Deleted(r) == kind[r] = "delete" /\ resp[r].status = 200

(***************************************************************************)
(* C32, as stated: once a delete-one of an event has answered with         *)
(* success, no read of the catalog returns an event of that event_id,      *)
(* whatever requests are in flight.                                        *)
(***************************************************************************)
C32_Original ==
  \A r \in Reqs : Deleted(r) => target[r] \notin Ids(Persisted)

(***************************************************************************)
(* C32: the write of a successful delete-one leaves a catalog without the  *)
(* event, and no request that read the catalog after that write brings the *)
(* event_id back.  Only the write of a request whose own snapshot holds    *)
(* the event, read before the delete wrote, puts it back into the catalog: *)
(* the last write wins.  A delete-all in flight never does.                *)
(***************************************************************************)
C32_DeletedReturnsOnlyByStaleWrite ==
  [][\A r \in Reqs :
       /\ (kind[r] = "delete" /\ Takes(r, "write_ok")) =>
            (resp'[r].status = 200 /\ target[r] \notin Ids(Persisted'))
       /\ Deleted(r) =>
            /\ \A q \in Reqs :
                 (Takes(q, "write_ok") /\ target[r] \notin Ids(snap[q])) =>
                   target[r] \notin Ids(Persisted')
            /\ (target[r] \notin Ids(Persisted) /\ target[r] \in Ids(Persisted')) =>
                 \E q \in Reqs \ {r} :
                   /\ Takes(q, "write_ok")
                   /\ kind[q] # "clear"
                   /\ target[r] \in Ids(snap[q])
                   /\ Persisted' = pending[q]]_vars

\* a delete-one has removed an event of two, a create that read the catalog
\* after that has appended its event, and the deleted event is not back
C32_Witness ==
  \E r \in Reqs, q \in Reqs :
    /\ Deleted(r)
    /\ Len(snap[r]) = 2
    /\ kind[q] = "create" /\ resp[q].status = 201
    /\ snap[q] = pending[r]
    /\ Persisted = pending[q]
    /\ target[r] \notin Ids(Persisted)

(***************************************************************************)
(* C33: a delete-all that reads an empty catalog calls no deletion of      *)
(* objects but still writes the empty catalog document, and answers with a *)
(* deleted count of 0; a delete-expired that finds nothing to remove       *)
(* answers without writing.                                                *)
(***************************************************************************)
C33_DeleteAllOfNothingStillWrites ==
  [][\A r \in Reqs :
       /\ (kind[r] = "none" /\ kind'[r] = "clear" /\ Persisted = <<>>) =>
            (pc'[r] = "write" /\ pending'[r] = <<>> /\ StoresUnchanged)
       /\ (kind[r] = "clear" /\ snap[r] = <<>> /\ log'[r] # log[r]) =>
            /\ blobs' = blobs
            /\ log[r] = <<"read">>
            /\ log'[r] \in {<<"read", "write_ok">>, <<"read", "write_fail">>}
            /\ Takes(r, "write_ok") =>
                 /\ resp'[r] = CountResponse(0, 0)
                 /\ fileState' = "valid" /\ catalog' = <<>>
            /\ Takes(r, "write_fail") => resp'[r].status = 500
       /\ (kind'[r] = "expired" /\ resp'[r].status = 200 /\ resp'[r].deleted = 0) =>
            ~HasStep(r, "write_ok")' /\ ~HasStep(r, "write_fail")']_vars

\* a delete-all that read no events has written the empty document and
\* answered 0 deleted, with every object still stored
C33_Witness ==
  \E r \in Reqs :
    /\ kind[r] = "clear"
    /\ snap[r] = <<>>
    /\ log[r] = <<"read", "write_ok">>
    /\ resp[r] = CountResponse(0, 0)
    /\ fileState = "valid"
    /\ blobs = AllUrls

\* an update starts with this request
StartsUpdate(r) == kind[r] = "none" /\ kind'[r] = "update"

(***************************************************************************)
(* C34: in an update the search for the event comes before the body.  An   *)
(* update of an event_id that is not in the catalog answers not-found      *)
(* (404) whatever its body is, also when the body cannot be parsed, has no *)
(* key or has an invalid field; an update of an existing event with a body *)
(* that parses but has no key answers with a validation error (400) and    *)
(* leaves the catalog as it is.                                            *)
(***************************************************************************)
C34_NotFoundBeforeValidation ==
  [][\A r \in Reqs :
       /\ (StartsUpdate(r) /\ target'[r] \notin Ids(Persisted)) =>
            /\ resp'[r] = ErrorResponse(404, "Event not found.")
            /\ ~HasStep(r, "validate_fail")' /\ ~HasStep(r, "throw")'
            /\ StoresUnchanged
       /\ ( /\ StartsUpdate(r) /\ target'[r] \in Ids(Persisted)
            /\ lastIn'.body.json = "ok" /\ Keys(lastIn'.body) = {} ) =>
            /\ pc'[r] = "done"
            /\ resp'[r] = ErrorResponse(400, "No fields provided to update.")
            /\ log'[r] = <<"read", "found", "validate_fail">>
            /\ pending'[r] = <<>>
            /\ StoresUnchanged
       /\ ( /\ StartsUpdate(r) /\ target'[r] \in Ids(Persisted)
            /\ lastIn'.body.json = "bad" ) =>
            /\ resp'[r] = ErrorResponse(400, "Invalid JSON payload.")
            /\ StoresUnchanged]_vars

\* an update with a body that is not JSON, for an event_id that the catalog
\* of two events does not hold, was answered not-found
C34_Witness ==
  \E r \in Reqs :
    /\ kind[r] = "update"
    /\ lastIn.req = r
    /\ lastIn.body.json = "bad"
    /\ Len(snap[r]) = 2
    /\ target[r] \notin Ids(snap[r])
    /\ resp[r] = ErrorResponse(404, "Event not found.")
    /\ Persisted = snap[r]

\* s is t with some of its elements left out: the elements of s occur in t
\* in the order of s
RECURSIVE IsSubsequence(_, _)
IsSubsequence(s, t) ==
  IF s = <<>> THEN TRUE
  ELSE IF t = <<>> THEN FALSE
  ELSE IF Head(s) = Head(t) THEN IsSubsequence(Tail(s), Tail(t))
  ELSE IsSubsequence(s, Tail(t))

(***************************************************************************)
(* C35: delete-one and delete-expired keep the stored order of the events  *)
(* that remain.  The catalog that either of them persists is the snapshot  *)
(* it read with some events left out, the others unchanged and in the      *)
(* order of the snapshot; delete-one leaves out exactly one event.         *)
(***************************************************************************)
C35_PersistedIsSubsequenceOfSnapshot ==
  [][\A r \in Reqs :
       (kind[r] \in {"delete", "expired"} /\ Takes(r, "write_ok")) =>
         /\ IsSubsequence(Persisted', snap[r])
         /\ Len(Persisted') < Len(snap[r])
         /\ kind[r] = "delete" => Len(Persisted') = Len(snap[r]) - 1]_vars

\* a delete-one has removed the second event of three, and the first and
\* the third are stored in that order
C35_Witness ==
  \E r \in Reqs :
    /\ Deleted(r)
    /\ Len(snap[r]) = 3
    /\ target[r] = snap[r][2].event_id
    /\ snap[r][1] # snap[r][3]
    /\ Persisted = <<snap[r][1], snap[r][3]>>

\* the body of the request is a JSON object with at least one key and none
\* that the update applies
OnlyUnknownKeys(body) ==
  /\ body.json = "ok"
  /\ Keys(body) # {}
  /\ Keys(body) \cap UpdatableFields = {}

(***************************************************************************)
(* C36: an update of an existing event whose body has only keys that the   *)
(* update does not apply (only event_id, say) passes validation with the   *)
(* stored record unchanged; its write stores a catalog equal to the        *)
(* snapshot it read, and it answers 200 with the unchanged record.         *)
(***************************************************************************)
C36_UnknownKeysOnlyRewritesSnapshot ==
  [][\A r \in Reqs :
       /\ ( /\ StartsUpdate(r) /\ target'[r] \in Ids(Persisted)
            /\ OnlyUnknownKeys(lastIn'.body) ) =>
            /\ pc'[r] = "write"
            /\ log'[r] = <<"read", "found", "validate_ok">>
            /\ ev'[r] = Current(r)'
            /\ pending'[r] = snap'[r]
       /\ ( /\ kind[r] = "update" /\ Takes(r, "write_ok")
            /\ lastIn.req = r /\ OnlyUnknownKeys(lastIn.body) ) =>
            /\ resp'[r] = EventResponse(200, Current(r))
            /\ Persisted' = snap[r]
            /\ blobs' = blobs]_vars

\* an update whose body has only the key event_id, for the second event of
\* two, was answered 200 with the stored record, and the catalog is the
\* snapshot
C36_Witness ==
  \E r \in Reqs :
    /\ kind[r] = "update"
    /\ lastIn.req = r
    /\ Keys(lastIn.body) = {"event_id"}
    /\ Len(snap[r]) = 2
    /\ target[r] = snap[r][2].event_id
    /\ resp[r] = EventResponse(200, snap[r][2])
    /\ Persisted = snap[r]

====
